---------------------------- MODULE Spec2Model ----------------------------
(***************************************************************************)
(* A model of the gemini-chat backend:                                     *)
(*   - the conversation loop driver chat_stream (api/endpoints/chat.py),   *)
(*   - the ReActOrchestrator step log (core/react_orchestrator.py),        *)
(*   - the code-execution tools (tools/exec.py) with the CodeAnalyzer      *)
(*     verdict they consult (tools/code_analyzer.py).                      *)
(* Texts (content, reasoning, argument strings, code) are sequences of     *)
(* tokens, so that concatenation order is observable.                      *)
(***************************************************************************)
EXTENDS Integers, Sequences, FiniteSets, TLC

(***************************************************************************)
(* Bounds of the model.                                                    *)
(***************************************************************************)
\* chunks the remote model may send in one streaming turn
MaxDeltas == 2
\* orchestrator methods called on one ReActOrchestrator
MaxCalls == 4
\* largest max_iterations an orchestrator is constructed with
MaxOrchIterations == 2
\* execute calls made on the execution tools
MaxExecCalls == 2
\* registry methods called on one ToolRegistry
MaxRegistryCalls == 4
\* messages of a chat request
MaxMessages == 2
\* chat API requests of which the messages are prepared
MaxPrepareCalls == 2

(***************************************************************************)
(* Program constants.                                                      *)
(***************************************************************************)
\* chat.py: max_iterations = 10
max_iterations == 10

NoneVal == "<None>"

(***************************************************************************)
(* Generic helpers on sequences of tokens.                                 *)
(***************************************************************************)
Last(s) == s[Len(s)]

RECURSIVE SumLen(_, _)
SumLen(text, len) ==
  IF text = <<>> THEN 0 ELSE len[Head(text)] + SumLen(Tail(text), len)

(***************************************************************************)
(* core/reasoning_parser.py: extract_thought_title.                        *)
(* Reasoning text is built from two fragments: the starter phrase          *)
(* "Let me " (7 characters, the last one a blank) and a 30-letter word.    *)
(* Neither holds a newline, a digit or one of . ! ? so the first line and  *)
(* the first sentence are the whole stripped text, and of the four         *)
(* patterns only the "Let me" one can match.                               *)
(***************************************************************************)
FragLetMe == "Let me "
FragWord  == "w30"
ReasoningFrags == {FragLetMe, FragWord}

CharLen == [t \in ReasoningFrags \cup {"Let me"} |->
              CASE t = FragLetMe -> 7
                [] t = "Let me"  -> 6
                [] t = FragWord  -> 30]

\* str.strip(): the only blank a text can end in is the one closing "Let me "
Strip(text) ==
  IF text # <<>> /\ Last(text) = FragLetMe
    THEN SubSeq(text, 1, Len(text) - 1) \o <<"Let me">>
    ELSE text

\* _capitalize_first: the first letter is upper-cased ("^" marks it)
_capitalize_first(text) == <<"^">> \o text

extract_thought_title(reasoning) ==
  IF reasoning = <<>> THEN <<NoneVal>>
  ELSE
    LET first_line == Strip(reasoning)
        \* ^(?:Let me|...)\s+(.+?)(?:\.|$): the starter, blanks, and a non-empty rest
        matched   == Head(first_line) = FragLetMe /\ Len(first_line) > 1
        extracted == Tail(first_line)
        elen      == SumLen(extracted, CharLen)
        flen      == SumLen(first_line, CharLen)
    IN  IF matched /\ 5 < elen /\ elen < 80 THEN _capitalize_first(extracted)
        ELSE IF 10 < flen /\ flen < 60 THEN _capitalize_first(first_line)
        ELSE <<NoneVal>>

(***************************************************************************)
(* The chunks of the chat API's streaming response (external interface).   *)
(* A delta carries a content fragment, a reasoning fragment (<<>> when     *)
(* absent or empty) and a list of tool-call fragments.                     *)
(***************************************************************************)
\* names: "file_read" is registered at startup, "nope" never is
ArgOpen  == "{\"path\":"
ArgClose == "\"a\"}"
\* an argument text that opens more arrays than the JSON scanner can nest
ArgDeep  == "[[[[...2000 times"

Frag(has_index, index, id, name, arguments) ==
  [has_index |-> has_index, index |-> index, id |-> id, name |-> name,
   arguments |-> arguments]

TCFragments ==
  { Frag(TRUE, 0, "call_a", "file_read", <<>>),
    Frag(TRUE, 0, "", "", <<ArgOpen>>),
    Frag(TRUE, 0, "", "", <<ArgClose>>),
    Frag(TRUE, 1, "call_b", "nope", <<ArgOpen>>),
    Frag(TRUE, 1, "", "file_read", <<ArgClose>>),
    Frag(TRUE, 2, "", "", <<>>),
    Frag(TRUE, 0, "call_a", "file_read", <<ArgDeep>>),
    Frag(FALSE, 0, "call_b", "file_read", <<ArgOpen>>) }

Delta(content, reasoning, tcs) ==
  [content |-> content, reasoning |-> reasoning, tool_calls |-> tcs]

Deltas ==
  { Delta(<<"Hel">>, <<>>, <<>>), Delta(<<"lo">>, <<>>, <<>>),
    Delta(<<>>, <<FragLetMe>>, <<>>), Delta(<<>>, <<FragWord>>, <<>>),
    Delta(<<>>, <<>>, <<>>) }
  \cup { Delta(<<>>, <<>>, <<f>>) : f \in TCFragments }
  \cup { Delta(<<"Hel">>, <<FragWord>>, <<Frag(TRUE, 0, "call_a", "file_read", <<>>)>>),
         Delta(<<>>, <<>>, << Frag(TRUE, 1, "call_b", "file_read", <<ArgOpen, ArgClose>>),
                              Frag(TRUE, 0, "call_a", "nope", <<>>) >>) }

(***************************************************************************)
(* State.                                                                  *)
(***************************************************************************)
VARIABLES
  pc,                \* where chat_stream is suspended
  registry,          \* names bound in the process-wide ToolRegistry
  iteration,         \* chat.py: iteration
  current_content,   \* chat.py: current_content
  current_reasoning, \* chat.py: current_reasoning
  tool_calls,        \* chat.py: tool_calls
  last_step,         \* chat.py: last_step
  appended,          \* messages appended to current_messages in this iteration
  tc_pos,            \* position in tool_calls of the call being processed
  action,            \* chat.py: action (the Action of the call being executed)
  step_seq,          \* steps created in this iteration (stands for the clock in ids)
  events,            \* history: events yielded in this iteration
  deltas,            \* history: chunks received in this iteration
  sent_terminal,     \* history: done/error events yielded in earlier iterations
  carried,           \* history: type of the last react_step event of earlier iterations
  api_requests       \* history: streaming chat API requests issued

VARIABLES
  steps,                \* ReActOrchestrator.steps
  current_phase,        \* ReActOrchestrator.current_phase
  current_iteration,    \* ReActOrchestrator.current_iteration
  orch_max_iterations,  \* ReActOrchestrator.max_iterations
  notified,             \* history: the steps passed to the on_step callback
  calls,                \* history: number of orchestrator methods called
  op,                   \* history: the method called last
  ret                   \* history: what it returned

orch_vars == << steps, current_phase, current_iteration, orch_max_iterations,
                notified, calls, op, ret >>

VARIABLES
  exec_pc,         \* where the current execute call stands
  exec_tool,       \* "python_exec" or "js_exec"
  exec_code,       \* kwargs["code"] of the current call
  verdict,         \* what is_code_safe returned to the current call
  module_aliases,  \* CodeAnalyzer.module_aliases of the Python tool's analyzer
  proc,            \* the subprocess of the current call
  elapsed,         \* seconds since the wait on communicate() began
  timed_out,       \* history: the wait raised asyncio.TimeoutError
  exec_result,     \* the ToolResult the current call returned
  exec_calls       \* history: number of execute calls made

exec_vars == << exec_pc, exec_tool, exec_code, verdict, module_aliases, proc,
                elapsed, timed_out, exec_result, exec_calls >>

chat_vars == << pc, registry, iteration, current_content, current_reasoning,
                tool_calls, last_step, appended, tc_pos, action, step_seq,
                events, deltas, sent_terminal, carried, api_requests >>

VARIABLES
  _tools,      \* ToolRegistry._tools: name -> tool object
  reg_op,      \* history: the registry method called last
  reg_arg,     \* history: its argument
  reg_raised,  \* history: the exception it raised, or None
  reg_ret,     \* history: what it returned
  reg_calls    \* history: number of registry methods called

registry_vars == << _tools, reg_op, reg_arg, reg_raised, reg_ret, reg_calls >>

VARIABLES
  current_messages,  \* chat.py: current_messages, the dicts handed to the client
  prepared,          \* what _prepare_messages returned to the last chat() call
  prepare_calls,     \* history: number of _prepare_messages calls
  tool_turns         \* history: number of tool turns appended to current_messages

prepare_vars == << current_messages, prepared, prepare_calls, tool_turns >>

VARIABLES
  analyzed,       \* the program the analyzer was last given
  analysis,       \* what it returned
  aliases_before  \* history: module_aliases when that call began

analyzer_vars == << analyzed, analysis, aliases_before >>

VARIABLES
  requests  \* the chat requests in flight at once: what each has yielded,
            \* appended and is suspended on

unit_vars == << registry_vars, prepare_vars, analyzer_vars, requests >>


(***************************************************************************)
(* models/chat.py StreamEvent and models/react.py steps.                   *)
(***************************************************************************)
StreamEvent(type, data) == [type |-> type, data |-> data]

ReActThought(id, content, title, leads_to) ==
  [type |-> "thought", id |-> id, content |-> content, title |-> title,
   leads_to |-> leads_to]

ReActAction(id, tool_call) ==
  [type |-> "action", id |-> id, tool_call |-> tool_call]

ReActObservation(id, action_id, result, error) ==
  [type |-> "observation", id |-> id, action_id |-> action_id,
   result |-> result, error |-> error]

\* last_step = None
NoStep == [type |-> "none"]

\* Of a last_step that is no Thought the driver only ever reads .type
StepRef(step) == IF step.type = "thought" THEN step ELSE [type |-> step.type]

\* f"thought-{int(time.time() * 1000)}": the n-th step created in the iteration
StepId(kind, n) == [kind |-> kind, t |-> n]

IsTerminal(e) == e.type \in {"done", "error"}

Count(evs, P(_)) == Cardinality({ i \in 1..Len(evs) : P(evs[i]) })

IsStep(e, type) == e.type = "react_step" /\ e.data.type = type

\* The type of the last react_step event among evs[1..i-1], or dflt
LastReactType(evs, i, dflt) ==
  LET before == { j \in 1..(i - 1) : evs[j].type = "react_step" }
  IN  IF before = {} THEN dflt
      ELSE evs[CHOOSE j \in before : \A k \in before : k <= j].data.type

(***************************************************************************)
(* chat.py 259-282: merging one tool-call fragment into tool_calls.        *)
(***************************************************************************)
\* f"tool-{int(uuid.uuid4())}-{len(tool_calls)}"
PlaceholderId(n) == "tool-uuid-" \o ToString(n)

PlaceholderEntry(n) == [id |-> PlaceholderId(n), name |-> "", arguments |-> <<>>]

\* while len(tool_calls) <= idx: tool_calls.append({...})
RECURSIVE EnsureSpace(_, _)
EnsureSpace(tcs, idx) ==
  IF Len(tcs) <= idx
    THEN EnsureSpace(Append(tcs, PlaceholderEntry(Len(tcs))), idx)
    ELSE tcs

\* Mutant: entries are kept in arrival order instead of being placed by index
MergeFragmentByArrival(tcs, tc) ==
  IF ~tc.has_index THEN tcs
  ELSE Append(tcs, [id        |-> IF tc.id # "" THEN tc.id ELSE PlaceholderId(Len(tcs)),
                    name      |-> tc.name,
                    arguments |-> tc.arguments])

\* Mutant: the id and the name of a fragment replace the stored ones even
\* when the fragment carries none
MergeFragmentOverwrite(tcs, tc) ==
  IF ~tc.has_index THEN tcs
  ELSE
    LET spaced == EnsureSpace(tcs, tc.index)
        old    == spaced[tc.index + 1]
        new    == [id        |-> tc.id,
                   name      |-> tc.name,
                   arguments |-> old.arguments \o tc.arguments]
    IN  [spaced EXCEPT ![tc.index + 1] = new]

MergeFragment(tcs, tc) ==
  IF ~tc.has_index THEN tcs
  ELSE
    LET spaced == EnsureSpace(tcs, tc.index)
        old    == spaced[tc.index + 1]
        new    == [id        |-> IF tc.id # "" THEN tc.id ELSE old.id,
                   name      |-> IF tc.name # "" THEN tc.name ELSE old.name,
                   arguments |-> old.arguments \o tc.arguments]
    IN  [spaced EXCEPT ![tc.index + 1] = new]

\* for tc in delta["tool_calls"]
RECURSIVE MergeFragments(_, _)
MergeFragments(tcs, frags) ==
  IF frags = <<>> THEN tcs
  ELSE MergeFragments(MergeFragment(tcs, Head(frags)), Tail(frags))

(***************************************************************************)
(* chat.py 230-256: the Thought of a reasoning delta.                      *)
(***************************************************************************)
\* Mutant: every reasoning delta constructs a new Thought
ReasoningStepAlwaysNew(ls, reasoning, thought_title, has_tool_calls, n) ==
  ReActThought(StepId("thought", n), reasoning, thought_title,
               IF has_tool_calls THEN "action" ELSE "response")

\* Mutant: the title is assigned whatever the extraction returned
ReasoningStepAssignsTitle(ls, reasoning, thought_title, has_tool_calls, n) ==
  IF ls.type = "thought"
    THEN [ls EXCEPT !.content = reasoning, !.title = thought_title]
    ELSE ReActThought(StepId("thought", n), reasoning, thought_title,
                      IF has_tool_calls THEN "action" ELSE "response")

ReasoningStep(ls, reasoning, thought_title, has_tool_calls, n) ==
  IF ls.type = "thought"
    THEN [ls EXCEPT !.content = reasoning,
                    !.title = IF thought_title # <<NoneVal>> THEN thought_title ELSE @]
    ELSE ReActThought(StepId("thought", n), reasoning, thought_title,
                      IF has_tool_calls THEN "action" ELSE "response")

(***************************************************************************)
(* chat.py 116-144: _ensure_thought_exists returns (last_step, thought).   *)
(***************************************************************************)
\* Mutant: no placeholder Thought is ever created
_ensure_thought_never(ls, tool_name, n) ==
  [last_step |-> ls, new_thought |-> NoStep]

_ensure_thought_exists(ls, tool_name, n) ==
  IF ls.type = "thought"
    THEN [last_step |-> ls, new_thought |-> NoStep]
    ELSE LET thought == ReActThought(StepId("thought", n),
                                     <<"Executing tool call without explicit reasoning: ", tool_name>>,
                                     <<"Implicit reasoning">>, "action")
         IN  [last_step |-> thought, new_thought |-> thought]

(***************************************************************************)
(* chat.py 315-319: json.loads of the accumulated argument string.         *)
(***************************************************************************)
\* the scanner reaches the over-deep text while it expects a value
RECURSIVE NestsTooDeep(_)
NestsTooDeep(text) ==
  /\ text # <<>>
  /\ \/ Head(text) = ArgDeep
     \/ Head(text) = ArgOpen /\ NestsTooDeep(Tail(text))

\* json.loads returns the value, or raises JSONDecodeError, or (the scanner
\* recurses once per nesting level) RecursionError
json_loads(text) ==
  IF text = <<ArgOpen, ArgClose>> THEN "{path: a}"
  ELSE IF NestsTooDeep(text) THEN "RecursionError"
  ELSE "JSONDecodeError"

\* try: parameters = json.loads(...)  except json.JSONDecodeError: parameters = {}
ParseParameters(arguments) ==
  IF json_loads(arguments) = "JSONDecodeError" THEN "{}" ELSE json_loads(arguments)

\* the exceptions of the parse that the except clause at 318 lets through
Uncaught(parameters) == parameters = "RecursionError"

(***************************************************************************)
(* What tool.execute may do (tools/base.py): return a ToolResult or raise. *)
(***************************************************************************)
ToolResult(success, result, error) ==
  [raised |-> FALSE, success |-> success, result |-> result, error |-> error]

ToolOutcomes ==
  { ToolResult(TRUE, "data", NoneVal),
    ToolResult(TRUE, "data", "note"),
    ToolResult(FALSE, NoneVal, "Path is required"),
    ToolResult(FALSE, NoneVal, NoneVal),
    [raised |-> TRUE, success |-> FALSE, result |-> NoneVal, error |-> "boom"] }

(***************************************************************************)
(* tools/__init__.py register_tools: the registry after startup.           *)
(***************************************************************************)
StartupRegistry(read_only) ==
  IF read_only THEN {"file_read"}
  ELSE {"file_read", "file_write", "python_exec", "js_exec"}

(***************************************************************************)
(* chat_stream.                                                            *)
(***************************************************************************)
ChatInit ==
  /\ pc = "init"
  /\ registry \in {StartupRegistry(TRUE), StartupRegistry(FALSE)}
  /\ iteration = 0
  /\ current_content = <<>>
  /\ current_reasoning = <<>>
  /\ tool_calls = <<>>
  /\ last_step = NoStep
  /\ appended = <<>>
  /\ tc_pos = 0
  /\ action = NoStep
  /\ step_seq = 0
  /\ events = <<>>
  /\ deltas = <<>>
  /\ sent_terminal = 0
  /\ carried = "none"
  /\ api_requests = 0

\* chat.py 190: while iteration < max_iterations
\* Mutant: off by one
LoopGuardInclusive(i) == i <= max_iterations

LoopGuard(i) == i < max_iterations

\* Mutant: the request empties the registry when it ends
CloseClearsRegistry(evs) ==
  /\ pc' = "closed"
  /\ events' = evs
  /\ registry' = {}
  /\ UNCHANGED << iteration, current_content, current_reasoning,
                  tool_calls, appended, tc_pos, action, step_seq, deltas, sent_terminal,
                  carried, api_requests >>

\* The generator returns after yielding evs.
Close(evs) ==
  /\ pc' = "closed"
  /\ events' = evs
  /\ UNCHANGED << registry, iteration, current_content, current_reasoning,
                  tool_calls, appended, tc_pos, action, step_seq, deltas, sent_terminal,
                  carried, api_requests >>

\* Mutant: the last step is reported once more before done
FinishReportsStep(evs, ls) ==
  /\ last_step' = ls
  /\ Close(evs \o <<StreamEvent("react_step", ls), StreamEvent("done", NoneVal)>>)

\* chat.py 485-490: the done event after the loop
Finish(evs, ls) ==
  /\ last_step' = ls
  /\ Close(evs \o <<StreamEvent("done", NoneVal)>>)

\* chat.py 494-508: the two except clauses
\* Mutant: the done event is yielded on the failure path too
OnDeepSeekErrorThenDone(evs) ==
  /\ UNCHANGED last_step
  /\ Close(evs \o <<StreamEvent("error", "DeepSeek request error"),
                     StreamEvent("done", NoneVal)>>)

OnDeepSeekError(evs) ==
  /\ UNCHANGED last_step
  /\ Close(evs \o <<StreamEvent("error", "DeepSeek request error")>>)

\* Mutant: an unexpected exception ends the generator without an event
OnExceptionSilent(evs) ==
  /\ UNCHANGED last_step
  /\ Close(evs)

OnException(evs) ==
  /\ UNCHANGED last_step
  /\ Close(evs \o <<StreamEvent("error", "Internal server error")>>)

\* chat.py 190-205: the loop test and, when it passes, the next chat API request.
\* evs and msgs are this iteration's events and messages, ls the last step.
LoopTest(evs, msgs, ls, seq) ==
  IF LoopGuard(iteration)
    THEN /\ iteration' = iteration + 1
         /\ current_content' = <<>>
         /\ current_reasoning' = <<>>
         /\ tool_calls' = <<>>
         /\ api_requests' = api_requests + 1
         /\ last_step' = ls
         /\ pc' = "stream"
         /\ tc_pos' = 0
         /\ action' = NoStep
         /\ step_seq' = 0
         /\ appended' = <<>>
         /\ deltas' = <<>>
         /\ events' = <<>>
         /\ sent_terminal' = sent_terminal + Count(evs, IsTerminal)
         /\ carried' = LastReactType(evs, Len(evs) + 1, carried)
         /\ UNCHANGED registry
    ELSE /\ appended' = msgs
         /\ last_step' = ls
         /\ pc' = "closed"
         /\ step_seq' = seq
         /\ events' = evs \o <<StreamEvent("done", NoneVal)>>
         /\ UNCHANGED << registry, iteration, current_content, current_reasoning,
                         tool_calls, tc_pos, action, deltas, sent_terminal, carried, api_requests >>

\* chat.py 162-190: up to the first request.  `def to_deepseek_message(msg:
\* Message)` names Message, which chat.py never imports: an interpreter that
\* evaluates annotations when the def runs raises NameError there (caught at
\* 502), one that defers them goes on.
Start ==
  /\ pc = "init"
  /\ UNCHANGED << orch_vars, exec_vars, unit_vars >>
  /\ \/ OnException(events)
     \/ LoopTest(events, appended, NoStep, step_seq)

\* Mutant: the step of a reasoning fragment is yielded ahead of the fragment
ChunkEventsStepFirst(content, reasoning, ls) ==
  (IF content # <<>> THEN <<StreamEvent("content", content)>> ELSE <<>>)
  \o (IF reasoning # <<>>
        THEN <<StreamEvent("react_step", ls), StreamEvent("reasoning", reasoning)>>
        ELSE <<>>)

\* chat.py 209-256: the events of one chunk; ls is the Thought after the update
ChunkEvents(content, reasoning, ls) ==
  (IF content # <<>> THEN <<StreamEvent("content", content)>> ELSE <<>>)
  \o (IF reasoning # <<>>
        THEN <<StreamEvent("reasoning", reasoning), StreamEvent("react_step", ls)>>
        ELSE <<>>)

\* chat.py 199-282: one chunk of the stream
StreamChunk(delta) ==
  LET content   == delta.content
      reasoning == delta.reasoning
      cc   == current_content \o content
      cr   == current_reasoning \o reasoning
      ls   == IF reasoning # <<>>
                THEN ReasoningStep(last_step, cr, extract_thought_title(cr),
                                   delta.tool_calls # <<>>, step_seq + 1)
                ELSE last_step
      \* a ReActThought was constructed, not the last one updated
      made == reasoning # <<>> /\ (last_step.type # "thought" \/ ls.id # last_step.id)
      evs  == ChunkEvents(content, reasoning, ls)
  IN  /\ pc = "stream"
      /\ UNCHANGED << orch_vars, exec_vars, unit_vars >>
      /\ Len(deltas) < MaxDeltas
      /\ deltas' = Append(deltas, delta)
      /\ current_content' = cc
      /\ current_reasoning' = cr
      /\ last_step' = ls
      /\ step_seq' = IF made THEN step_seq + 1 ELSE step_seq
      /\ tool_calls' = MergeFragments(tool_calls, delta.tool_calls)
      /\ events' = events \o evs
      /\ UNCHANGED << pc, registry, iteration, appended, tc_pos, action, sent_terminal,
                      carried, api_requests >>

\* Mutant: the assistant message lists the first tool call only
AssistantMessageFirstCall ==
  [role |-> "assistant", content |-> current_content,
   reasoning_content |-> current_reasoning, tool_calls |-> <<tool_calls[1]>>]

\* chat.py 291-308
AssistantMessage ==
  [role |-> "assistant", content |-> current_content,
   reasoning_content |-> current_reasoning, tool_calls |-> tool_calls]

\* chat.py 284-308: the stream ended ([DONE] or the connection closed)
StreamEnd ==
  /\ pc = "stream"
  /\ UNCHANGED << orch_vars, exec_vars, unit_vars >>
  /\ IF tool_calls = <<>>
       THEN Finish(events, last_step)
       ELSE /\ appended' = Append(appended, AssistantMessage)
            /\ pc' = "tool"
            /\ tc_pos' = 1
            /\ UNCHANGED << registry, iteration, current_content, current_reasoning,
                            tool_calls, last_step, action, step_seq, events, deltas,
                            sent_terminal, carried, api_requests >>

\* Mutant: after the error event the request is issued again
StreamErrorRetries ==
  /\ pc = "stream"
  /\ UNCHANGED << orch_vars, exec_vars, unit_vars >>
  /\ LoopTest(events \o <<StreamEvent("error", "DeepSeek request error")>>,
              appended, last_step, step_seq)

\* deepseek.py 97-131: the request or the stream failed (non-2xx, network)
StreamError ==
  /\ pc = "stream"
  /\ UNCHANGED << orch_vars, exec_vars, unit_vars >>
  /\ OnDeepSeekError(events)

\* chat.py 207: a chunk whose "choices" is an empty list raises IndexError
StreamCrash ==
  /\ pc = "stream"
  /\ UNCHANGED << orch_vars, exec_vars, unit_vars >>
  /\ OnException(events)

ToolMessage(tool_call_id, content) ==
  [role |-> "tool", tool_call_id |-> tool_call_id, content |-> content]

\* Mutant: the next call is taken up with the tool message not yet appended
AfterToolCallNoAppend(evs, msgs, ls, seq) ==
  /\ tc_pos' = IF tc_pos < Len(tool_calls) THEN tc_pos + 1 ELSE tc_pos
  /\ pc' = IF tc_pos < Len(tool_calls) THEN "tool" ELSE "loop"
  /\ events' = evs
  /\ appended' = IF tc_pos < Len(tool_calls) THEN appended ELSE msgs
  /\ last_step' = ls
  /\ action' = NoStep
  /\ step_seq' = seq
  /\ UNCHANGED << registry, iteration, current_content, current_reasoning,
                  tool_calls, deltas, sent_terminal, carried, api_requests >>

\* chat.py 310, 483: after the outcome of call tc_pos the for loop takes the
\* next call, or is exhausted and control is back at the while test.
AfterToolCall(evs, msgs, ls, seq) ==
  /\ tc_pos' = IF tc_pos < Len(tool_calls) THEN tc_pos + 1 ELSE tc_pos
  /\ pc' = IF tc_pos < Len(tool_calls) THEN "tool" ELSE "loop"
  /\ events' = evs
  /\ appended' = msgs
  /\ last_step' = ls
  /\ action' = NoStep
  /\ step_seq' = seq
  /\ UNCHANGED << registry, iteration, current_content, current_reasoning,
                  tool_calls, deltas, sent_terminal, carried, api_requests >>

\* chat.py 190-191: the while test after a turn that executed tools
LoopBack ==
  /\ pc = "loop"
  /\ UNCHANGED << orch_vars, exec_vars, unit_vars >>
  /\ LoopTest(events, appended, last_step, step_seq)

\* Mutant: a name the registry does not know ends the request
ToolNotFoundAborts(evs, tc, act, n) == OnException(evs)

\* chat.py 455-483: the registry has no tool of that name
ToolNotFound(evs, tc, act, n) ==
  LET error_msg   == <<"Error: Tool '", tc.name, "' not found">>
      observation == ReActObservation(StepId("observation", n + 2), act.id, NoneVal, error_msg)
  IN  AfterToolCall(evs \o << StreamEvent("tool_error", [toolCallId |-> tc.id, error |-> error_msg]),
                              StreamEvent("react_step", observation) >>,
                    Append(appended, ToolMessage(tc.id, error_msg)),
                    StepRef(observation), n + 2)

\* chat.py 311-360 and 455-483: a tool call up to tool.execute, or all of it
\* when the registry has no such tool
ToolCallBegin ==
  LET tc           == tool_calls[tc_pos]
      parameters   == ParseParameters(tc.arguments)
      tool_call_data == [id |-> tc.id, name |-> tc.name, parameters |-> parameters]
      ensured      == _ensure_thought_exists(last_step, tc.name, step_seq + 1)
      placed       == ensured.new_thought.type = "thought"
      n            == IF placed THEN step_seq + 1 ELSE step_seq
      act          == ReActAction(StepId("action", n + 1), tool_call_data)
      evs          == events \o <<StreamEvent("tool_call", tool_call_data)>>
                      \o (IF placed THEN <<StreamEvent("react_step", ensured.new_thought)>> ELSE <<>>)
                      \o <<StreamEvent("react_step", act)>>
  IN  /\ pc = "tool"
      /\ UNCHANGED << orch_vars, exec_vars, unit_vars >>
      /\ IF Uncaught(parameters)
           THEN OnException(events)
         ELSE IF tc.name \in registry
           THEN /\ pc' = "exec"
                /\ action' = act
                /\ last_step' = StepRef(act)
                /\ step_seq' = n + 1
                /\ events' = evs
                /\ UNCHANGED << registry, iteration, current_content, current_reasoning,
                                tool_calls, appended, tc_pos, deltas, sent_terminal, carried, api_requests >>
           ELSE ToolNotFound(evs, tc, act, n)

\* Mutant: an exception of tool.execute is not caught at the call
ToolRaisedPropagates(tc, out) == OnException(events)

\* chat.py 427-454: tool.execute raised
ToolRaised(tc, out) ==
  LET observation == ReActObservation(StepId("observation", step_seq + 1), action.id,
                                      NoneVal, out.error)
      event == StreamEvent("tool_error", [toolCallId |-> tc.id, error |-> out.error])
  IN  AfterToolCall(events \o <<event, StreamEvent("react_step", observation)>>,
                    Append(appended, ToolMessage(tc.id, <<"Error: ", out.error>>)),
                    StepRef(observation), step_seq + 1)

\* Mutant: the Observation copies both fields of the ToolResult
ToolReturnedVerbatim(tc, out) ==
  LET observation == ReActObservation(StepId("observation", step_seq + 1), action.id,
                                      out.result, out.error)
      event == StreamEvent(IF out.success THEN "tool_result" ELSE "tool_error",
                           [toolCallId |-> tc.id])
  IN  AfterToolCall(events \o <<event, StreamEvent("react_step", observation)>>,
                    Append(appended, ToolMessage(tc.id, <<>>)),
                    StepRef(observation), step_seq + 1)

\* Mutant: the Observation is yielded before the outcome event
ToolReturnedObservationFirst(tc, out) ==
  LET oid  == StepId("observation", step_seq + 1)
      observation ==
        IF out.success
          THEN ReActObservation(oid, action.id, out.result, NoneVal)
          ELSE ReActObservation(oid, action.id, NoneVal, out.error)
      event ==
        IF out.success
          THEN StreamEvent("tool_result", [toolCallId |-> tc.id, result |-> out.result])
          ELSE StreamEvent("tool_error",
                 [toolCallId |-> tc.id,
                  error |-> IF out.error # NoneVal THEN out.error ELSE "Unknown error"])
      content ==
        IF out.success
          THEN (IF out.result # NoneVal THEN <<"json.dumps", out.result>> ELSE <<>>)
          ELSE (IF out.error # NoneVal THEN <<"Error: ", out.error>> ELSE <<"Error">>)
  IN  AfterToolCall(events \o <<StreamEvent("react_step", observation), event>>,
                    Append(appended, ToolMessage(tc.id, content)),
                    StepRef(observation), step_seq + 1)

\* chat.py 364-425: tool.execute returned a ToolResult
ToolReturned(tc, out) ==
  LET oid  == StepId("observation", step_seq + 1)
      observation ==
        IF out.success
          THEN ReActObservation(oid, action.id, out.result, NoneVal)
          ELSE ReActObservation(oid, action.id, NoneVal, out.error)
      event ==
        IF out.success
          THEN StreamEvent("tool_result", [toolCallId |-> tc.id, result |-> out.result])
          ELSE StreamEvent("tool_error",
                 [toolCallId |-> tc.id,
                  error |-> IF out.error # NoneVal THEN out.error ELSE "Unknown error"])
      content ==
        IF out.success
          THEN (IF out.result # NoneVal THEN <<"json.dumps", out.result>> ELSE <<>>)
          ELSE (IF out.error # NoneVal THEN <<"Error: ", out.error>> ELSE <<"Error">>)
  IN  AfterToolCall(events \o <<event, StreamEvent("react_step", observation)>>,
                    Append(appended, ToolMessage(tc.id, content)),
                    StepRef(observation), step_seq + 1)

\* chat.py 362-454: the awaited tool.execute is over
ToolCallEnd(out) ==
  /\ pc = "exec"
  /\ UNCHANGED << orch_vars, exec_vars, unit_vars >>
  /\ IF out.raised
       THEN ToolRaised(tool_calls[tc_pos], out)
       ELSE ToolReturned(tool_calls[tc_pos], out)

ChatNext ==
  \/ Start
  \/ \E delta \in Deltas : StreamChunk(delta)
  \/ StreamEnd
  \/ StreamError
  \/ StreamCrash
  \/ ToolCallBegin
  \/ \E out \in ToolOutcomes : ToolCallEnd(out)
  \/ LoopBack

(***************************************************************************)
(* core/react_orchestrator.py: ReActOrchestrator.                          *)
(***************************************************************************)
\* __init__ (24-41)
OrchInit ==
  /\ orch_max_iterations \in 0..MaxOrchIterations
  /\ current_iteration = 0
  /\ steps = <<>>
  /\ current_phase = "idle"
  /\ notified = <<>>
  /\ calls = 0
  /\ op = "__init__"
  /\ ret = NoStep

\* Mutant: the new step is put at the head of the log
_add_step_at_head(step) ==
  /\ steps' = << step >> \o steps
  /\ notified' = Append(notified, step)

\* _add_step (186-193): append, then the callback
_add_step(step) ==
  /\ steps' = Append(steps, step)
  /\ notified' = Append(notified, step)

\* the method `name` was called and returned `value`
Called(name, value) ==
  /\ calls < MaxCalls
  /\ calls' = calls + 1
  /\ op' = name
  /\ ret' = value
  /\ UNCHANGED << chat_vars, exec_vars, unit_vars >>

\* Mutant: a Thought that follows a Thought replaces it in place
record_thought_in_place(content, title, leads_to) ==
  LET thought == ReActThought(StepId("thought", calls), content, title, leads_to)
      merged  == [Last(steps) EXCEPT !.content = content, !.title = title]
  IN  /\ current_phase' = "thinking"
      /\ IF steps # <<>> /\ Last(steps).type = "thought"
           THEN /\ steps' = [steps EXCEPT ![Len(steps)] = merged]
                /\ notified' = Append(notified, merged)
                /\ Called("record_thought", merged)
           ELSE /\ _add_step(thought)
                /\ Called("record_thought", thought)
      /\ UNCHANGED << current_iteration, orch_max_iterations >>

\* Mutant: at the ceiling a Thought is recorded without moving the phase
record_thought_keeps_phase(content, title, leads_to) ==
  LET thought == ReActThought(StepId("thought", calls), content, title, leads_to)
  IN  /\ current_phase' = IF current_iteration >= orch_max_iterations
                             THEN current_phase ELSE "thinking"
      /\ _add_step(thought)
      /\ Called("record_thought", thought)
      /\ UNCHANGED << current_iteration, orch_max_iterations >>

\* Mutant: an Action with no Thought before it gets a placeholder Thought
record_action_with_placeholder(tool_call) ==
  LET act     == ReActAction(StepId("action", calls), tool_call)
      implied == ReActThought(StepId("thought", calls), <<>>,
                              <<"Implicit reasoning">>, "action")
      missing == steps = <<>> \/ Last(steps).type # "thought"
  IN  /\ current_phase' = "acting"
      /\ steps' = IF missing THEN steps \o <<implied, act>> ELSE Append(steps, act)
      /\ notified' = IF missing THEN notified \o <<implied, act>>
                     ELSE Append(notified, act)
      /\ Called("record_action", act)
      /\ UNCHANGED << current_iteration, orch_max_iterations >>

\* record_thought (43-71)
record_thought(content, title, leads_to) ==
  LET thought == ReActThought(StepId("thought", calls), content, title, leads_to)
  IN  /\ current_phase' = "thinking"
      /\ _add_step(thought)
      /\ Called("record_thought", thought)
      /\ UNCHANGED << current_iteration, orch_max_iterations >>

\* record_action (73-95)
record_action(tool_call) ==
  LET act == ReActAction(StepId("action", calls), tool_call)
  IN  /\ current_phase' = "acting"
      /\ _add_step(act)
      /\ Called("record_action", act)
      /\ UNCHANGED << current_iteration, orch_max_iterations >>

\* Mutant: the counter stops at max_iterations
record_observation_saturating(action_id, result, error) ==
  LET observation == ReActObservation(StepId("observation", calls), action_id, result, error)
  IN  /\ _add_step(observation)
      /\ current_iteration' = IF current_iteration < orch_max_iterations
                                 THEN current_iteration + 1 ELSE current_iteration
      /\ current_phase' = IF current_iteration' >= orch_max_iterations
                             THEN "complete" ELSE "observing"
      /\ Called("record_observation", observation)
      /\ UNCHANGED orch_max_iterations

\* record_observation (97-134)
record_observation(action_id, result, error) ==
  LET observation == ReActObservation(StepId("observation", calls), action_id, result, error)
  IN  /\ _add_step(observation)
      /\ current_iteration' = current_iteration + 1
      /\ current_phase' = IF current_iteration' >= orch_max_iterations
                             THEN "complete" ELSE "observing"
      /\ Called("record_observation", observation)
      /\ UNCHANGED orch_max_iterations

\* Mutant: the follow-up Thought is recorded whatever the counter
record_follow_up_thought_unguarded(content, title) ==
  LET thought == ReActThought(StepId("thought", calls), content, title, NoneVal)
  IN  /\ current_phase' = "thinking"
      /\ _add_step(thought)
      /\ Called("record_follow_up_thought", thought)
      /\ UNCHANGED << current_iteration, orch_max_iterations >>

\* record_follow_up_thought (136-163)
record_follow_up_thought(content, title) ==
  LET thought == ReActThought(StepId("thought", calls), content, title, NoneVal)
  IN  IF current_iteration >= orch_max_iterations
        THEN /\ Called("record_follow_up_thought", NoStep)
             /\ UNCHANGED << steps, notified, current_phase, current_iteration,
                             orch_max_iterations >>
        ELSE /\ current_phase' = "thinking"
             /\ _add_step(thought)
             /\ Called("record_follow_up_thought", thought)
             /\ UNCHANGED << current_iteration, orch_max_iterations >>

\* get_steps (165-171)
get_steps ==
  /\ Called("get_steps", [type |-> "list", steps |-> steps])
  /\ UNCHANGED << steps, notified, current_phase, current_iteration,
                  orch_max_iterations >>

\* get_state (173-184)
get_state ==
  /\ Called("get_state", [type |-> "dict", steps |-> steps,
                          current_phase |-> current_phase,
                          max_iterations |-> orch_max_iterations,
                          current_iteration |-> current_iteration])
  /\ UNCHANGED << steps, notified, current_phase, current_iteration,
                  orch_max_iterations >>

\* What callers pass
ToolCallData == [id |-> "call_a", name |-> "file_read", parameters |-> "{}"]

OrchNext ==
  \/ \E content \in {<<FragLetMe>>, <<FragLetMe, FragWord>>},
        leads_to \in {NoneVal, "action"} :
       record_thought(content, <<NoneVal>>, leads_to)
  \/ record_action(ToolCallData)
  \/ \E r \in {<<"data", NoneVal>>, <<NoneVal, "Path is required">>} :
       record_observation(StepId("action", 1), r[1], r[2])
  \/ record_follow_up_thought(<<FragWord>>, <<NoneVal>>)
  \/ get_steps
  \/ get_state

(***************************************************************************)
(* tools/code_analyzer.py: CodeAnalyzer.  Python source is a string; its   *)
(* syntax tree is the list of nodes ast.walk yields.  JavaScript source is *)
(* a sequence of lexical tokens (words, punctuation, blanks), which is     *)
(* what the regular expressions of the analyzer are sensitive to.          *)
(***************************************************************************)
\* __init__ (23-27)
python_modification_keywords ==
  << "write", "open", "remove", "delete", "rename", "mkdir", "makedirs",
     "chmod", "chown", "exec", "eval", "compile", "system", "popen" >>

\* __init__ (31-68)
restricted_modules ==
  [ os |->
      [ safe |-> { "getcwd", "listdir", "path", "name", "environ", "getenv",
                   "sep", "linesep", "curdir", "pardir", "pathsep", "defpath",
                   "altsep", "extsep", "devnull" },
        dangerous |-> { "system", "popen", "remove", "rename", "mkdir",
                        "makedirs", "chmod", "chown", "unlink", "rmdir", "exec",
                        "spawn", "kill", "fork", "pipe", "dup", "dup2", "close",
                        "fdopen", "open", "write", "read", "lseek", "fstat",
                        "stat", "lstat", "access", "link", "symlink",
                        "readlink", "listxattr", "removexattr", "setxattr" } ],
    sys |->
      [ safe |-> { "version", "platform", "argv", "path", "modules", "exit",
                   "executable", "prefix", "base_prefix", "byteorder",
                   "maxsize", "maxunicode", "copyright", "api_version",
                   "version_info", "hexversion", "dont_write_bytecode", "stdin",
                   "stdout", "stderr", "exc_info", "last_type", "last_value",
                   "last_traceback", "tracebacklimit" },
        dangerous |-> { "setprofile", "settrace", "setrecursionlimit",
                        "setcheckinterval", "setswitchinterval" } ],
    subprocess |->
      [ safe |-> {},
        dangerous |-> { "run", "call", "check_call", "check_output", "Popen",
                        "getoutput", "getstatusoutput" } ],
    shutil |->
      [ safe |-> {},
        dangerous |-> { "copy", "copy2", "copytree", "rmtree", "move", "chown",
                        "which", "disk_usage", "unpack_archive",
                        "make_archive" } ],
    tempfile |->
      [ safe |-> {},
        dangerous |-> { "mkstemp", "mkdtemp", "mktemp", "NamedTemporaryFile",
                        "TemporaryFile", "SpooledTemporaryFile" } ] ]

\* __init__ (74-80)
js_modification_keywords ==
  << "writeFile", "appendFile", "unlink", "rmdir", "mkdir", "rename", "chmod",
     "chown", "eval", "Function", "exec", "spawn", "fs.write", "fs.append",
     "fs.unlink", "child_process", "process.exit" >>

\* str.lower() on the identifiers and tokens that occur
lower(s) ==
  CASE s = "Function" -> "function"
    [] s = "writeFile" -> "writefile"
    [] s = "appendFile" -> "appendfile"
    [] s = "readFileSync" -> "readfilesync"
    [] s = "readFile" -> "readfile"
    [] s = "writeSync" -> "writesync"
    [] s = "unlinkSync" -> "unlinksync"
    [] s = "copyFile" -> "copyfile"
    [] s = "fs.write" -> "fs.write"
    [] s = "Open" -> "open"
    [] s = "exitCode" -> "exitcode"
    [] s = "Popen" -> "popen"
    [] s = "NamedTemporaryFile" -> "namedtemporaryfile"
    [] s = "TemporaryFile" -> "temporaryfile"
    [] s = "SpooledTemporaryFile" -> "spooledtemporaryfile"
    [] s = "ValueError" -> "valueerror"
    [] OTHER -> s

\* ", ".join(parts) as the list of its fragments
RECURSIVE join(_, _)
join(sep, parts) ==
  IF parts = << >> THEN << >>
  ELSE IF Len(parts) = 1 THEN parts[1]
  ELSE parts[1] \o << sep >> \o join(sep, Tail(parts))

\* syntax tree nodes
Name(id) == [node |-> "Name", id |-> id]
Attribute(value, attr) == [node |-> "Attribute", value |-> value, attr |-> attr]
Import(name, asname) == [node |-> "Import", name |-> name, asname |-> asname]
ImportFrom(module, name, asname) ==
  [node |-> "ImportFrom", module |-> module, name |-> name, asname |-> asname]
Call(func) == [node |-> "Call", func |-> func]
Assign(target) == [node |-> "Assign", target |-> target]
FunctionDef(name) == [node |-> "FunctionDef", name |-> name]
Module(body) == [raised |-> NoneVal, body |-> body]
Raises(exc, msg) == [raised |-> exc, msg |-> msg]

\* ast.parse then ast.walk, on the programs submitted.  A NUL byte in the
\* source raises ValueError up to Python 3.11 and SyntaxError from 3.12.
ast_parse(code) ==
  CASE code = "print('hi')" ->
         { Module(<< Call(Name("print")) >>) }
    [] code = "import os; os.system('ls')" ->
         { Module(<< Import("os", NoneVal),
                     Call(Attribute(Name("os"), "system")) >>) }
    [] code = "import time; time.sleep(35)" ->
         { Module(<< Import("time", NoneVal),
                     Call(Attribute(Name("time"), "sleep")) >>) }
    [] code = "print(" ->
         { Raises("SyntaxError", "'(' was never closed") }
    [] code = "Open('f', 'w')" ->
         { Module(<< Call(Name("Open")) >>) }
    [] code = "import os as o; o.remove('f')" ->
         { Module(<< Import("os", "o"),
                     Call(Attribute(Name("o"), "remove")) >>) }
    [] code = "import os; os.path.join('a', 'b')" ->
         { Module(<< Import("os", NoneVal),
                     Call(Attribute(Attribute(Name("os"), "path"), "join")) >>) }
    [] code = "from subprocess import run; run(['ls'])" ->
         { Module(<< ImportFrom("subprocess", "run", NoneVal),
                     Call(Name("run")) >>) }
    [] code = "from shutil import rmtree as rm; rm.now('d')" ->
         { Module(<< ImportFrom("shutil", "rmtree", "rm"),
                     Call(Attribute(Name("rm"), "now")) >>) }
    [] code = "__x = 1" ->
         { Module(<< Assign(Name("__x")) >>) }
    [] code = "o.remove('f')" ->
         { Module(<< Call(Attribute(Name("o"), "remove")) >>) }
    [] code = "rm.now('d')" ->
         { Module(<< Call(Attribute(Name("rm"), "now")) >>) }
    [] code = "raise ValueError('x')" ->
         { Module(<< Call(Name("ValueError")) >>) }
    [] code = "x = 'NUL'" ->
         { Raises("ValueError", "source code string cannot contain null bytes"),
           Raises("SyntaxError", "source code string cannot contain null bytes") }
    [] OTHER -> { Module(<< >>) }

PythonPrograms ==
  { "", "print('hi')", "import os; os.system('ls')",
    "import time; time.sleep(35)", "print(", "Open('f', 'w')",
    "import os as o; o.remove('f')", "import os; os.path.join('a', 'b')",
    "from subprocess import run; run(['ls'])",
    "from shutil import rmtree as rm; rm.now('d')", "__x = 1", "x = 'NUL'",
    "raise ValueError('x')" }

\* target.id.startswith('__')
StartsWithDunder(id) == id \in { "__x", "__name__", "__builtins__" }

\* dict[key] = value
DictSet(d, key, value) ==
  [k \in DOMAIN d \cup {key} |-> IF k = key THEN value ELSE d[k]]

\* dict.get(key, default)
DictGet(d, key, default) == IF key \in DOMAIN d THEN d[key] ELSE default

\* {}
EmptyDict == [k \in {} |-> << >>]

\* Mutant: an import is recorded under the module's own name, alias or not
RECURSIVE CollectImportsByName(_, _)
CollectImportsByName(nodes, aliases) ==
  IF nodes = << >> THEN aliases
  ELSE LET node == Head(nodes)
       IN  CollectImportsByName(Tail(nodes),
             CASE node.node = "Import" ->
                    DictSet(aliases, node.name, << node.name >>)
               [] node.node = "ImportFrom" ->
                    DictSet(aliases, node.name, << node.module, node.name >>)
               [] OTHER -> aliases)

\* analyze_python_code (96-112): the first pass.  A module name is the list
\* of its dot-separated parts.
RECURSIVE CollectImports(_, _)
CollectImports(nodes, aliases) ==
  IF nodes = << >> THEN aliases
  ELSE LET node == Head(nodes)
           alias_name == IF node.asname # NoneVal THEN node.asname ELSE node.name
       IN  CollectImports(Tail(nodes),
             CASE node.node = "Import" ->
                    DictSet(aliases, alias_name, << node.name >>)
               [] node.node = "ImportFrom" ->
                    DictSet(aliases, alias_name, << node.module, node.name >>)
               [] OTHER -> aliases)

\* _extract_attribute_chain (187-199)
RECURSIVE _extract_attribute_chain(_)
_extract_attribute_chain(node) ==
  IF node.node = "Attribute"
    THEN _extract_attribute_chain(node.value) \o << node.attr >>
    ELSE IF node.node = "Name" THEN << node.id >> ELSE << >>

\* _check_attribute_call (201-249): the fragments of the message, or None
_check_attribute_call(aliases, attr_chain) ==
  IF Len(attr_chain) < 2 THEN << NoneVal >>
  ELSE
    LET module_name == attr_chain[1]
        aliased == DictGet(aliases, module_name, << module_name >>)
        actual_module == aliased[1]
    IN  IF Len(aliased) > 1 /\ actual_module \in DOMAIN restricted_modules
          THEN IF aliased[2] \in restricted_modules[actual_module].dangerous
                 THEN << "call to ", actual_module, ".", aliased[2] >>
                 ELSE << NoneVal >>
        ELSE IF actual_module \in DOMAIN restricted_modules
          THEN LET func_name == attr_chain[2]
               IN  IF actual_module = "os" /\ func_name = "path" /\ Len(attr_chain) > 2
                     THEN << NoneVal >>
                   ELSE IF func_name \in restricted_modules[actual_module].dangerous
                     THEN << "call to ", actual_module, ".", func_name >>
                   ELSE << NoneVal >>
        ELSE << NoneVal >>

\* analyze_python_code (114-135): the second pass
RECURSIVE DetectOps(_, _)
DetectOps(nodes, aliases) ==
  IF nodes = << >> THEN << >>
  ELSE
    LET node == Head(nodes)
        found ==
          CASE node.node = "Call" /\ node.func.node = "Name" ->
                 IF \E i \in DOMAIN python_modification_keywords :
                      lower(node.func.id) = lower(python_modification_keywords[i])
                   THEN << << "call to ", node.func.id >> >>
                   ELSE << >>
            [] node.node = "Call" /\ node.func.node = "Attribute" ->
                 LET result == _check_attribute_call(
                                 aliases, _extract_attribute_chain(node.func))
                 IN  IF result # << NoneVal >> THEN << result >> ELSE << >>
            [] node.node = "Assign" ->
                 IF node.target.node = "Name" /\ StartsWithDunder(node.target.id)
                   THEN << << "assignment to ", node.target.id >> >>
                   ELSE << >>
            [] OTHER -> << >>
    IN  found \o DetectOps(Tail(nodes), aliases)

\* Mutant: the table of the call before is kept
KeptAliases(self_module_aliases) == self_module_aliases

\* self.module_aliases = {} (94), once ast.parse returned
ResetAliases(self_module_aliases) == EmptyDict

\* Mutant: an exception of the analysis other than SyntaxError is let pass
analyze_python_code_fail_open(tree) ==
  IF tree.raised # NoneVal THEN << TRUE, << NoneVal >>, << >> >>
  ELSE
    LET detected_ops == DetectOps(tree.body, CollectImports(tree.body, EmptyDict))
    IN  IF detected_ops # << >>
          THEN << FALSE,
                  << "Code contains modification operations: " >>
                    \o join(", ", detected_ops),
                  detected_ops >>
          ELSE << TRUE, << NoneVal >>, << >> >>

\* analyze_python_code (82-148) on one outcome of ast.parse
analyze_python_code(tree) ==
  IF tree.raised = "SyntaxError" THEN << TRUE, << NoneVal >>, << >> >>
  ELSE IF tree.raised # NoneVal
    THEN << FALSE, << "Code analysis failed: ", tree.msg >>, << >> >>
  ELSE
    LET detected_ops ==
          DetectOps(tree.body,
                    CollectImports(tree.body, ResetAliases(module_aliases)))
    IN  IF detected_ops # << >>
          THEN << FALSE,
                  << "Code contains modification operations: " >>
                    \o join(", ", detected_ops),
                  detected_ops >>
          ELSE << TRUE, << NoneVal >>, << >> >>

\* \w+ and \s
WordTokens ==
  { "console", "log", "1", "hi", "eval", "Function", "function", "new", "f",
    "fs", "writeFile", "writefile", "readFileSync", "readfilesync", "while",
    "require", "child_process", "a", "process", "exitCode", "exitcode", "3",
    "readFile", "readfile", "writeSync", "writesync", "appendFile",
    "appendfile", "unlink", "unlinkSync", "unlinksync", "rmdir", "mkdir",
    "mkdtemp", "rename", "chmod", "chown", "stat", "readdir", "rm", "copyFile",
    "copyfile", "add", "b", "return" }
IsWord(tok) == tok \in WordTokens
IsSpace(tok) == tok = " "

\* the JavaScript programs submitted
JSPrograms ==
  { << >>,
    << "console", ".", "log", "(", "1", ")" >>,
    << "console", ".", "log", "(", "'", "hi", "'", ")" >>,
    << "eval", " ", "(", "'", "1", "'", ")" >>,
    << "require", "(", "'", "fs", "'", ")", ".", "writeFile", "(", ")" >>,
    << "fs", ".", "writeFile", "(", ")" >>,
    << "fs", ".", "readFileSync", "(", "'", "a", "'", ")" >>,
    << "while", "(", "1", ")", ";" >>,
    << "function", " ", "f", "(", ")", "{", "}" >>,
    << "new", " ", "Function", "(", ")" >>,
    << "BACKTICK", "a", "BACKTICK" >>,
    << "process", ".", "exitCode", "=", "3" >> }

\* a keyword of the analyzer as tokens
Tokens(pattern) ==
  CASE pattern = "fs.write" -> << "fs", ".", "write" >>
    [] pattern = "fs.append" -> << "fs", ".", "append" >>
    [] pattern = "fs.unlink" -> << "fs", ".", "unlink" >>
    [] pattern = "process.exit" -> << "process", ".", "exit" >>
    [] OTHER -> << lower(pattern) >>

\* \b at the gap before text[i]
Boundary(text, i) ==
  LET before == i > 1 /\ IsWord(text[i - 1])
      after == i <= Len(text) /\ IsWord(text[i])
  IN  before # after

\* text[i..] begins with pat
MatchAt(text, i, pat) ==
  /\ i + Len(pat) - 1 <= Len(text)
  /\ \A k \in 1..Len(pat) : text[i + k - 1] = pat[k]

\* re.search(rf'\b{pattern.lower()}\b', code_lower)
SearchKeyword(pattern, code_lower) ==
  LET pat == Tokens(pattern)
  IN  \E i \in 1..Len(code_lower) :
        /\ MatchAt(code_lower, i, pat)
        /\ Boundary(code_lower, i)
        /\ Boundary(code_lower, i + Len(pat))

\* the first index at or after i that holds no blank
RECURSIVE SkipSpace(_, _)
SkipSpace(text, i) ==
  IF i <= Len(text) /\ IsSpace(text[i]) THEN SkipSpace(text, i + 1) ELSE i

\* re.search(r'\beval\s*\(', code_lower)
SearchEvalCall(code_lower) ==
  \E i \in 1..Len(code_lower) :
    /\ code_lower[i] = "eval"
    /\ Boundary(code_lower, i)
    /\ LET j == SkipSpace(code_lower, i + 1)
       IN  j <= Len(code_lower) /\ code_lower[j] = "("

\* re.search(r'\bnew\s+Function\s*\(', code_lower)
SearchFunctionConstructor(code_lower) ==
  \E i \in 1..Len(code_lower) :
    /\ code_lower[i] = "new"
    /\ Boundary(code_lower, i)
    /\ i + 1 <= Len(code_lower) /\ IsSpace(code_lower[i + 1])
    /\ LET j == SkipSpace(code_lower, i + 1)
       IN  /\ j <= Len(code_lower) /\ code_lower[j] = "Function"
           /\ LET k == SkipSpace(code_lower, j + 1)
              IN  k <= Len(code_lower) /\ code_lower[k] = "("

\* Mutant: every member of fs counts as a write
AnyFsMember(tok) == TRUE

\* the word begins with one of write|append|unlink|rmdir|mkdir|rename|chmod|chown
BeginsWithFsWrite(tok) ==
  tok \in { "write", "writefile", "writesync", "append", "appendfile", "unlink",
            "unlinksync", "rmdir", "mkdir", "rename", "chmod", "chown" }

\* re.search(r'\bfs\.\w+', code_lower)
SearchFsMember(code_lower) ==
  \E i \in 1..Len(code_lower) :
    /\ Boundary(code_lower, i)
    /\ i + 2 <= Len(code_lower)
    /\ code_lower[i] = "fs" /\ code_lower[i + 1] = "." /\ IsWord(code_lower[i + 2])

\* re.search(r'\bfs\.(write|append|...)', code_lower)
SearchFsWrite(code_lower) ==
  \E i \in 1..Len(code_lower) :
    /\ Boundary(code_lower, i)
    /\ i + 2 <= Len(code_lower)
    /\ code_lower[i] = "fs" /\ code_lower[i + 1] = "."
    /\ BeginsWithFsWrite(code_lower[i + 2])

\* the keywords found, in the order of the list
RECURSIVE DetectKeywords(_, _)
DetectKeywords(keywords, code_lower) ==
  IF keywords = << >> THEN << >>
  ELSE (IF SearchKeyword(Head(keywords), code_lower)
          THEN << << Head(keywords) >> >> ELSE << >>)
       \o DetectKeywords(Tail(keywords), code_lower)

\* analyze_javascript_code (150-185)
analyze_javascript_code(code) ==
  LET code_lower == [i \in DOMAIN code |-> lower(code[i])]
      detected_ops ==
        DetectKeywords(js_modification_keywords, code_lower)
        \o (IF SearchEvalCall(code_lower) THEN << << "eval" >> >> ELSE << >>)
        \o (IF SearchFunctionConstructor(code_lower)
              THEN << << "Function constructor" >> >> ELSE << >>)
        \o (IF SearchFsMember(code_lower) /\ SearchFsWrite(code_lower)
              THEN << << "fs operation" >> >> ELSE << >>)
  IN  IF detected_ops # << >>
        THEN << FALSE,
                << "Code contains modification operations: " >>
                  \o join(", ", detected_ops),
                detected_ops >>
        ELSE << TRUE, << NoneVal >>, << >> >>

\* Mutant: every program is classified safe
is_code_safe_permissive(code, language, tree) == << TRUE, << NoneVal >> >>

\* is_code_safe (251-269); tree is the outcome of ast.parse for Python code
is_code_safe(code, language, tree) ==
  IF language = "python"
    THEN << analyze_python_code(tree)[1], analyze_python_code(tree)[2] >>
  ELSE IF language = "javascript"
    THEN << analyze_javascript_code(code)[1], analyze_javascript_code(code)[2] >>
  ELSE << FALSE, << "Unsupported language: ", language >> >>

(***************************************************************************)
(* tools/exec.py: PythonExecTool.execute and JSExecTool.execute.           *)
(***************************************************************************)
\* the language each tool passes to is_code_safe (43, 108)
Language(tool) == IF tool = "python_exec" THEN "python" ELSE "javascript"

\* wait_for(..., timeout=30.0) (61) and timeout=5.0 (132), in seconds
PythonTimeout == 30
JSTimeout == 5
Timeout(tool) == IF tool = "python_exec" THEN PythonTimeout ELSE JSTimeout

\* the error text of a timeout (66, 137)
TimeoutMessage(tool) ==
  IF tool = "python_exec" THEN "Execution timeout (30s)"
                          ELSE "Execution timeout (5s)"

\* seconds the interpreter runs when nothing stops it
Runtimes(tool) == { 1, Timeout(tool), Timeout(tool) + 5 }

\* code.replace (119) puts a backslash before every single quote and every
\* backtick; BACKTICK stands for the backtick character
RECURSIVE Escape(_)
Escape(code) ==
  IF code = << >> THEN << >>
  ELSE (IF Head(code) \in { "'", "BACKTICK" } THEN << "\\", Head(code) >>
                                          ELSE << Head(code) >>)
       \o Escape(Tail(code))

\* the argv of create_subprocess_exec (49-55, 121-127)
Argv(tool, code) ==
  IF tool = "python_exec" THEN << "sys.executable", "-c", code >>
                          ELSE << "node", "-e", Escape(code) >>

\* no subprocess was created
NoProc == [state |-> "none"]

\* not code: the empty str
Empty(tool, code) == IF tool = "python_exec" THEN code = "" ELSE code = << >>

NoResult == [success |-> FALSE, result |-> NoneVal, error |-> << "<pending>" >>]

ExecInit ==
  /\ exec_pc = "idle"
  /\ exec_tool = "python_exec"
  /\ exec_code = ""
  /\ verdict = << TRUE, << NoneVal >> >>
  /\ module_aliases = EmptyDict
  /\ proc = NoProc
  /\ elapsed = 0
  /\ timed_out = FALSE
  /\ exec_result = NoResult
  /\ exec_calls = 0

\* return of execute
Return(result) ==
  /\ exec_pc' = "returned"
  /\ exec_result' = result

\* execute up to its first await (37-46, 102-111)
Execute(tool, code, tree) ==
  /\ exec_pc \in { "idle", "returned" }
  /\ exec_calls < MaxExecCalls
  /\ exec_calls' = exec_calls + 1
  /\ exec_tool' = tool
  /\ exec_code' = code
  /\ proc' = NoProc
  /\ elapsed' = 0
  /\ timed_out' = FALSE
  /\ UNCHANGED << chat_vars, orch_vars, unit_vars >>
  /\ IF Empty(tool, code)
       THEN /\ Return(ToolResult(FALSE, NoneVal, << "Code is required" >>))
            /\ UNCHANGED << verdict, module_aliases >>
       ELSE LET checked == is_code_safe(code, Language(tool), tree)
            IN  /\ verdict' = checked
                /\ module_aliases' =
                     IF tool = "python_exec" /\ tree.raised = NoneVal
                       THEN CollectImports(tree.body, ResetAliases(module_aliases))
                       ELSE module_aliases
                /\ IF ~ checked[1]
                     THEN Return(ToolResult(FALSE, NoneVal, checked[2]))
                     ELSE /\ exec_pc' = "spawn"
                          /\ exec_result' = NoResult

\* what a program writes and the status it exits with when left to end
ExitOutcome(stdout, stderr, returncode) ==
  [stdout |-> stdout, stderr |-> stderr, returncode |-> returncode]

\* what the interpreter does with the program: an uncaught exception is a
\* traceback on stderr and status 1, an exit status set by the program
\* is that status; any other program here ends with status 0, with or
\* without warnings on stderr
ExitOutcomes(tool, code) ==
  IF tool = "python_exec" /\ code = "raise ValueError('x')"
    THEN { ExitOutcome("", "err", 1) }
  ELSE IF tool = "js_exec" /\ code = << "process", ".", "exitCode", "=", "3" >>
    THEN { ExitOutcome("", "", 3) }
  ELSE { ExitOutcome("out", stderr, 0) : stderr \in { "", "err" } }

\* create_subprocess_exec (49-55, 121-127) starts the interpreter
Spawn(runtime, stdout, stderr, returncode) ==
  /\ exec_pc = "spawn"
  /\ exec_pc' = "wait"
  /\ proc' = [state |-> "running", argv |-> Argv(exec_tool, exec_code),
              runtime |-> runtime, stdout |-> stdout, stderr |-> stderr,
              returncode |-> returncode, killed |-> FALSE]
  /\ UNCHANGED << exec_tool, exec_code, verdict, module_aliases, elapsed,
                  timed_out, exec_result, exec_calls, chat_vars, orch_vars, unit_vars >>

\* create_subprocess_exec raises (74-76, 148-152)
SpawnFails(exc) ==
  /\ exec_pc = "spawn"
  /\ Return(ToolResult(FALSE, NoneVal,
       IF exec_tool = "js_exec" /\ exc = "FileNotFoundError"
         THEN << "Node.js not found in PATH" >>
         ELSE << exc >>))
  /\ UNCHANGED << exec_tool, exec_code, verdict, module_aliases, proc, elapsed,
                  timed_out, exec_calls, chat_vars, orch_vars, unit_vars >>

\* a second passes while the interpreter runs
Tick ==
  /\ exec_pc = "wait"
  /\ proc.state = "running"
  /\ elapsed < proc.runtime
  /\ elapsed < Timeout(exec_tool)
  /\ elapsed' = elapsed + 1
  /\ UNCHANGED << exec_pc, exec_tool, exec_code, verdict, module_aliases, proc,
                  timed_out, exec_result, exec_calls, chat_vars, orch_vars, unit_vars >>

\* the interpreter ends by itself; the event loop has its exit status
ProcessExits ==
  /\ exec_pc \in { "wait", "timeout", "reap", "cancelled" }
  /\ proc.state = "running"
  /\ elapsed >= proc.runtime
  /\ proc' = [proc EXCEPT !.state = "exited"]
  /\ UNCHANGED << exec_pc, exec_tool, exec_code, verdict, module_aliases,
                  elapsed, timed_out, exec_result, exec_calls, chat_vars,
                  orch_vars, unit_vars >>

\* the pipes of an exited process reach end of file: the transport is closed
\* and forgets the process
TransportCloses ==
  /\ exec_pc \in { "wait", "timeout", "reap", "cancelled" }
  /\ proc.state = "exited"
  /\ proc' = [proc EXCEPT !.state = "closed"]
  /\ UNCHANGED << exec_pc, exec_tool, exec_code, verdict, module_aliases,
                  elapsed, timed_out, exec_result, exec_calls, chat_vars,
                  orch_vars, unit_vars >>

\* communicate() returns within the timeout (59-62, 68-72; 130-133, 139-146)
CommunicateReturns ==
  /\ exec_pc = "wait"
  /\ proc.state = "closed"
  /\ Return(IF exec_tool = "python_exec"
              THEN ToolResult(TRUE, [stdout |-> proc.stdout, stderr |-> proc.stderr], << NoneVal >>)
            ELSE IF proc.stderr # ""
              THEN ToolResult(FALSE, NoneVal, << proc.stderr >>)
            ELSE ToolResult(TRUE, [result |-> proc.stdout], << NoneVal >>))
  /\ UNCHANGED << exec_tool, exec_code, verdict, module_aliases, proc, elapsed,
                  timed_out, exec_calls, chat_vars, orch_vars, unit_vars >>

\* wait_for cancels communicate() and raises TimeoutError (63, 134)
TimeoutFires ==
  /\ exec_pc = "wait"
  /\ elapsed = Timeout(exec_tool)
  /\ exec_pc' = "timeout"
  /\ timed_out' = TRUE
  /\ UNCHANGED << exec_tool, exec_code, verdict, module_aliases, proc, elapsed,
                  exec_result, exec_calls, chat_vars, orch_vars, unit_vars >>

\* proc.kill() (64, 135): ProcessLookupError once the transport forgot the
\* process, caught by 'except Exception' (74-76, 150-152); nothing to signal
\* once the exit status is known; SIGKILL otherwise
Kill ==
  /\ exec_pc = "timeout"
  /\ IF proc.state = "closed"
       THEN /\ Return(ToolResult(FALSE, NoneVal, << "" >>))
            /\ UNCHANGED proc
       ELSE /\ exec_pc' = "reap"
            /\ proc' = IF proc.state = "running"
                         THEN [proc EXCEPT !.state = "exited", !.killed = TRUE]
                         ELSE proc
            /\ UNCHANGED exec_result
  /\ UNCHANGED << exec_tool, exec_code, verdict, module_aliases, elapsed,
                  timed_out, exec_calls, chat_vars, orch_vars, unit_vars >>

\* await proc.wait() returns (65-66, 136-137)
Reap ==
  /\ exec_pc = "reap"
  /\ proc.state = "closed"
  /\ Return(ToolResult(FALSE, NoneVal, << TimeoutMessage(exec_tool) >>))
  /\ UNCHANGED << exec_tool, exec_code, verdict, module_aliases, proc, elapsed,
                  timed_out, exec_calls, chat_vars, orch_vars, unit_vars >>

\* The client disconnects: the response task is cancelled and CancelledError
\* is raised at the await execute is suspended in (59, 65; 130, 136).  It is
\* no Exception, so neither handler of execute (63, 74; 134, 148, 150) runs
\* and nothing touches the process.
Cancel ==
  /\ exec_pc \in { "wait", "reap" }
  /\ exec_pc' = "cancelled"
  /\ UNCHANGED << exec_tool, exec_code, verdict, module_aliases, proc, elapsed,
                  timed_out, exec_result, exec_calls, chat_vars, orch_vars, unit_vars >>

\* a second passes for an interpreter nobody waits for
OrphanRuns ==
  /\ exec_pc = "cancelled"
  /\ proc.state = "running"
  /\ elapsed < proc.runtime
  /\ elapsed' = elapsed + 1
  /\ UNCHANGED << exec_pc, exec_tool, exec_code, verdict, module_aliases, proc,
                  timed_out, exec_result, exec_calls, chat_vars, orch_vars, unit_vars >>

ExecNext ==
  \/ \E code \in PythonPrograms : \E tree \in ast_parse(code) :
       Execute("python_exec", code, tree)
  \/ \E code \in JSPrograms : Execute("js_exec", code, Module(<< >>))
  \/ \E runtime \in Runtimes(exec_tool) : \E o \in ExitOutcomes(exec_tool, exec_code) :
       Spawn(runtime, o.stdout, o.stderr, o.returncode)
  \/ \E exc \in { "FileNotFoundError", "PermissionError" } : SpawnFails(exc)
  \/ Tick
  \/ ProcessExits
  \/ TransportCloses
  \/ CommunicateReturns
  \/ TimeoutFires
  \/ Kill
  \/ Reap
  \/ Cancel
  \/ OrphanRuns

(***************************************************************************)
(* tools/registry.py: ToolRegistry.  A tool object is its name and which   *)
(* object it is: two FileReadTool objects bear the same name.              *)
(***************************************************************************)
ToolObject(name, instance) == [name |-> name, instance |-> instance]

\* What callers pass
ToolObjects ==
  { ToolObject("file_read", 1), ToolObject("file_read", 2),
    ToolObject("python_exec", 1) }

ToolNames == { "file_read", "python_exec", "nope" }

\* __init__ (14-17)
RegistryInit ==
  /\ _tools = EmptyDict
  /\ reg_op = "__init__"
  /\ reg_arg = NoneVal
  /\ reg_raised = NoneVal
  /\ reg_ret = NoneVal
  /\ reg_calls = 0

\* the method `name` was called with `arg`, raised `raised` or returned `value`
RegistryCalled(name, arg, raised, value) ==
  /\ reg_calls < MaxRegistryCalls
  /\ reg_calls' = reg_calls + 1
  /\ reg_op' = name
  /\ reg_arg' = arg
  /\ reg_raised' = raised
  /\ reg_ret' = value
  /\ UNCHANGED << chat_vars, orch_vars, exec_vars, prepare_vars, analyzer_vars, requests >>

\* Mutant: registering a name again rebinds it
register_rebinds(tool) ==
  /\ _tools' = DictSet(_tools, tool.name, tool)
  /\ RegistryCalled("register", tool, NoneVal, NoneVal)

\* register (19-32)
register(tool) ==
  IF tool.name \in DOMAIN _tools
    THEN /\ RegistryCalled("register", tool, "ValueError", NoneVal)
         /\ UNCHANGED _tools
    ELSE /\ _tools' = DictSet(_tools, tool.name, tool)
         /\ RegistryCalled("register", tool, NoneVal, NoneVal)

\* unregister (34-47)
unregister(name) ==
  IF name \notin DOMAIN _tools
    THEN /\ RegistryCalled("unregister", name, "KeyError", NoneVal)
         /\ UNCHANGED _tools
    ELSE /\ _tools' = [k \in DOMAIN _tools \ {name} |-> _tools[k]]
         /\ RegistryCalled("unregister", name, NoneVal, NoneVal)

\* get (49-58)
registry_get(name) ==
  /\ RegistryCalled("get", name, NoneVal,
                    IF name \in DOMAIN _tools THEN _tools[name] ELSE NoneVal)
  /\ UNCHANGED _tools

\* clear (76-79)
clear ==
  /\ _tools' = EmptyDict
  /\ RegistryCalled("clear", NoneVal, NoneVal, NoneVal)

RegistryNext ==
  \/ \E tool \in ToolObjects : register(tool)
  \/ \E name \in ToolNames : unregister(name)
  \/ \E name \in ToolNames : registry_get(name)
  \/ clear

(***************************************************************************)
(* core/deepseek.py: DeepSeekClient._prepare_messages, on the message      *)
(* dicts of chat_stream.  A key of a dict is missing or given with a       *)
(* value; a text is the list of its fragments, None the list << None >>.   *)
(***************************************************************************)
Missing == [has |-> FALSE]
Given(value) == [has |-> TRUE, value |-> value]

\* the keys of a message dict that _prepare_messages reads or writes
MessageDict(role, tcs, reasoning_content) ==
  [role |-> role, tool_calls |-> tcs, reasoning_content |-> reasoning_content]

\* msg.get(key) is truthy: the key is there, not None, not "" and not []
Truthy(field) == field.has /\ field.value \notin { << >>, << NoneVal >> }

\* chat.py 177-181: request messages, dumped without their None fields; the
\* None values stand for dicts built by other callers of the client
RequestMessages ==
  { MessageDict(role, tcs, rc) :
      role \in { "user", "assistant", "tool" },
      tcs \in { Missing, Given(<< >>), Given(<< "call_a" >>) },
      rc \in { Missing, Given(<< NoneVal >>), Given(<< >>), Given(<< FragWord >>) } }

\* chat.py 291-308 and 391-395: what a tool turn appends
AssistantDict(reasoning) ==
  MessageDict("assistant", Given(<< "call_a" >>), Given(reasoning))
ToolDict == MessageDict("tool", Missing, Missing)

\* deepseek.py 150-154
SystemDict == MessageDict("system", Missing, Missing)

\* Mutant: reasoning_content is supplied where required but never removed
SanitizeKeeps(msg) ==
  IF msg.role = "assistant" /\ Truthy(msg.tool_calls) /\ ~Truthy(msg.reasoning_content)
    THEN [msg EXCEPT !.reasoning_content = Given(<< >>)]
    ELSE msg

\* deepseek.py 157-165: one turn of the for loop, on the dict itself
Sanitize(msg) ==
  IF msg.role = "assistant" /\ Truthy(msg.tool_calls)
    THEN IF ~Truthy(msg.reasoning_content)
           THEN [msg EXCEPT !.reasoning_content = Given(<< >>)]
           ELSE msg
    ELSE [msg EXCEPT !.reasoning_content = Missing]

\* _prepare_messages (133-169): the list returned
_prepare_messages(messages, system_prompt) ==
  (IF system_prompt \notin { NoneVal, "" } THEN << SystemDict >> ELSE << >>)
    \o [i \in 1..Len(messages) |-> Sanitize(messages[i])]

\* chat (51-75) as called at chat.py 199-205: the messages are prepared; the
\* dicts of the caller's list are the ones changed
PrepareChat(system_prompt) ==
  /\ prepare_calls < MaxPrepareCalls
  /\ tool_turns = prepare_calls
  /\ prepare_calls' = prepare_calls + 1
  /\ prepared' = _prepare_messages(current_messages, system_prompt)
  /\ current_messages' = [i \in 1..Len(current_messages) |-> Sanitize(current_messages[i])]
  /\ UNCHANGED tool_turns
  /\ UNCHANGED << chat_vars, orch_vars, exec_vars, registry_vars, analyzer_vars, requests >>

\* chat.py 291-308 and 391-395: the response requested a tool; the assistant
\* message and the tool message are appended
AppendToolTurn(reasoning) ==
  /\ tool_turns < prepare_calls
  /\ tool_turns' = tool_turns + 1
  /\ current_messages' = current_messages \o << AssistantDict(reasoning), ToolDict >>
  /\ UNCHANGED << prepared, prepare_calls >>
  /\ UNCHANGED << chat_vars, orch_vars, exec_vars, registry_vars, analyzer_vars, requests >>

PrepareNext ==
  \/ \E system_prompt \in { NoneVal, "REACT_SYSTEM_PROMPT" } : PrepareChat(system_prompt)
  \/ \E reasoning \in { << >>, << FragWord >> } : AppendToolTurn(reasoning)

\* the message lists a request may carry
RECURSIVE ListsUpTo(_, _)
ListsUpTo(S, n) ==
  IF n = 0 THEN { << >> }
  ELSE LET shorter == ListsUpTo(S, n - 1)
       IN  shorter \cup { Append(l, x) : l \in shorter, x \in S }

(***************************************************************************)
(* tools/code_analyzer.py: analyze_python_code on the programs that import *)
(* a restricted module, or a name from it, and call one of its functions.  *)
(***************************************************************************)
\* ast.parse of "import M as A; A.f()", and of "import M; M.f()" for A None
AliasedCall(M, A, f) ==
  Module(<< Import(M, A),
            Call(Attribute(Name(IF A = NoneVal THEN M ELSE A), f)) >>)

\* ast.parse of "from M import f as g; g()", and of "from M import f; f()"
FromImportCall(M, f, g) ==
  Module(<< ImportFrom(M, f, g), Call(Name(IF g = NoneVal THEN f ELSE g)) >>)

\* the names a program gives to what it imports; sys is itself restricted
Aliases == { NoneVal, "o", "sys" }

Functions(M) == restricted_modules[M].dangerous \cup restricted_modules[M].safe

\* ast.parse of "def name(x): return x" followed by "name(1)"
UserDefinedCall(name) == Module(<< FunctionDef(name), Call(Name(name)) >>)

AnalyzerInputs ==
  UNION { { AliasedCall(M, A, f) : A \in Aliases, f \in Functions(M) }
            \cup { FromImportCall(M, f, g) : g \in { NoneVal, "g" }, f \in Functions(M) } :
          M \in DOMAIN restricted_modules }
  \cup { UserDefinedCall(name) : name \in { "write", "open", "helper" } }

\* analyze_python_code (82-148) is given a program
AnalyzePython(tree) ==
  /\ analyzed' = tree
  /\ analysis' = analyze_python_code(tree)
  /\ UNCHANGED << aliases_before, requests >>
  /\ UNCHANGED << chat_vars, orch_vars, exec_vars, registry_vars, prepare_vars >>

AnalyzerNext == \E tree \in AnalyzerInputs : AnalyzePython(tree)

(***************************************************************************)
(* tools/code_analyzer.py: one CodeAnalyzer given one program after the    *)
(* other, in either language.                                              *)
(***************************************************************************)
\* "fs.<method>('a')"
FsAccess(method) == << "fs", ".", method, "(", "'", "a", "'", ")" >>

FsMethods ==
  { "readFile", "readFileSync", "stat", "readdir", "copyFile", "rm", "mkdtemp",
    "writeFile", "writeSync", "appendFile", "unlink", "unlinkSync", "rmdir",
    "mkdir", "rename", "chmod", "chown" }

\* "function add(a, b) { return a + b; }"
FunctionAdd ==
  << "function", " ", "add", "(", "a", ",", " ", "b", ")", " ", "{", " ",
     "return", " ", "a", " ", "+", " ", "b", ";", " ", "}" >>

\* the Python programs of the execution tools, and two that call through a
\* name they do not import
PythonSnippets == PythonPrograms \cup { "o.remove('f')", "rm.now('d')" }

JSSnippets ==
  JSPrograms \cup { FsAccess(method) : method \in FsMethods } \cup { FunctionAdd }

\* analyze_python_code (82-148) or analyze_javascript_code (150-185) is
\* given a program; tree is the outcome of ast.parse for Python code
analyze(language, code, tree) ==
  /\ analyzed' = [language |-> language, code |-> code, tree |-> tree]
  /\ aliases_before' = module_aliases
  /\ analysis' = IF language = "python" THEN analyze_python_code(tree)
                                        ELSE analyze_javascript_code(code)
  /\ module_aliases' =
       IF language = "python" /\ tree.raised = NoneVal
         THEN CollectImports(tree.body, ResetAliases(module_aliases))
         ELSE module_aliases
  /\ UNCHANGED << exec_pc, exec_tool, exec_code, verdict, proc, elapsed,
                  timed_out, exec_result, exec_calls >>
  /\ UNCHANGED << chat_vars, orch_vars, registry_vars, prepare_vars, requests >>

AnalyzerCallsNext ==
  \/ \E code \in PythonSnippets : \E tree \in ast_parse(code) :
       analyze("python", code, tree)
  \/ \E code \in JSSnippets : analyze("javascript", code, Module(<< >>))

(***************************************************************************)
(* chat.py chat_stream, twice at once on one event loop.  A request is     *)
(* reduced to what it shares with the other: the tools of the registry     *)
(* and, through python_exec, the alias table of its CodeAnalyzer.  It is   *)
(* suspended on the read of the chat API stream or on the subprocess of a  *)
(* tool; between two suspensions it runs alone.                            *)
(***************************************************************************)
Requests == { 1, 2 }

\* tool calls a request makes at most
MaxTurns == 2

NoCall == [tool |-> NoneVal, code |-> NoneVal, tree |-> Module(<< >>)]

\* the tool calls the chat API may ask for
RequestedCalls ==
  { [tool |-> "python_exec", code |-> "import os as o; o.remove('f')",
     tree |-> Module(<< Import("os", "o"),
                        Call(Attribute(Name("o"), "remove")) >>)],
    [tool |-> "python_exec", code |-> "o.remove('f')",
     tree |-> Module(<< Call(Attribute(Name("o"), "remove")) >>)],
    [tool |-> "js_exec", code |-> << "fs", ".", "writeFile", "(", ")" >>,
     tree |-> Module(<< >>)] }

\* what the subprocess of a call leaves: exec.py 72, and 66 or 76
ProcessResults ==
  { ToolResult(TRUE, "stdout", << NoneVal >>),
    ToolResult(FALSE, NoneVal, << "stderr" >>) }

\* chat.py 329-334 and 364-454: the events of a call and of its outcome
ToolEvents(call, result) ==
  << StreamEvent("tool_call", << call.tool >>),
     StreamEvent(IF result.success THEN "tool_result" ELSE "tool_error",
                 IF result.success THEN << result.result >> ELSE result.error) >>

\* chat.py 389-394 and 419-424: the tool message of the call
ToolTurn(call, result) ==
  ToolMessage(call.tool,
              IF result.success THEN << "json.dumps", result.result >>
                                ELSE << "Error: " >> \o result.error)

\* the request after one of its tool calls is over
Served(req, call, result) ==
  [req EXCEPT !.pc = "stream",
              !.call = NoCall,
              !.script = Append(@, [call |-> call, result |-> result]),
              !.events = @ \o ToolEvents(call, result),
              !.history = Append(@, ToolTurn(call, result))]

RequestsIdle ==
  requests = [r \in Requests |->
                [pc |-> "stream", call |-> NoCall, script |-> << >>,
                 events |-> << >>, history |-> << >>]]

\* chat.py 199-360 and exec.py 37-55, 102-127: the stream read returned a turn
\* that asks for a tool; the request runs on through tool.execute to its
\* first await, the analysis of the code included
RequestToolCall(r, call) ==
  /\ requests[r].pc = "stream"
  /\ Len(requests[r].script) < MaxTurns
  /\ call.tool \in registry
  /\ LET checked == is_code_safe(call.code, Language(call.tool), call.tree)
     IN  /\ module_aliases' =
              IF call.tool = "python_exec" /\ call.tree.raised = NoneVal
                THEN CollectImports(call.tree.body, ResetAliases(module_aliases))
                ELSE module_aliases
         /\ requests' =
              [requests EXCEPT ![r] =
                 IF ~ checked[1]
                   THEN Served(@, call, ToolResult(FALSE, NoneVal, checked[2]))
                   ELSE [@ EXCEPT !.pc = "exec", !.call = call]]
  /\ UNCHANGED << exec_pc, exec_tool, exec_code, verdict, proc, elapsed,
                  timed_out, exec_result, exec_calls >>
  /\ UNCHANGED << chat_vars, orch_vars, registry_vars, prepare_vars, analyzer_vars >>

\* exec.py 57-76, 129-152: the subprocess the request awaited is over
RequestToolDone(r, result) ==
  /\ requests[r].pc = "exec"
  /\ requests' = [requests EXCEPT ![r] = Served(@, @.call, result)]
  /\ UNCHANGED << chat_vars, orch_vars, exec_vars, registry_vars, prepare_vars,
                  analyzer_vars >>

\* chat.py 284-289 and 485-490: the stream read returned a turn without tool
\* calls; the request yields done and returns
RequestDone(r) ==
  /\ requests[r].pc = "stream"
  /\ requests' = [requests EXCEPT ![r].pc = "closed",
                                  ![r].events = Append(@, StreamEvent("done", << >>))]
  /\ UNCHANGED << chat_vars, orch_vars, exec_vars, registry_vars, prepare_vars,
                  analyzer_vars >>

ConcurrentNext ==
  \E r \in Requests :
    \/ \E call \in RequestedCalls : RequestToolCall(r, call)
    \/ \E result \in ProcessResults : RequestToolDone(r, result)
    \/ RequestDone(r)

\* No registry method is called
RegistryIdle ==
  /\ RegistryInit

\* No message list is prepared
PrepareIdle ==
  /\ current_messages = << >>
  /\ prepared = << >>
  /\ prepare_calls = 0
  /\ tool_turns = 0

\* No program is analyzed outside the execution tools
AnalyzerIdle ==
  /\ analyzed = Module(<< >>)
  /\ analysis = << TRUE, << NoneVal >>, << >> >>
  /\ aliases_before = EmptyDict

UnitsIdle ==
  /\ RegistryIdle
  /\ PrepareIdle
  /\ AnalyzerIdle
  /\ RequestsIdle

\* No orchestrator is constructed by chat_stream
OrchUnused ==
  /\ OrchInit
  /\ orch_max_iterations = 0

vars == << chat_vars, orch_vars, exec_vars, unit_vars >>

\* One chat request
Init ==
  /\ ChatInit
  /\ OrchUnused
  /\ ExecInit
  /\ UnitsIdle

Spec == Init /\ [][ChatNext]_vars

\* One ReActOrchestrator under any sequence of method calls
OrchSpecInit ==
  /\ OrchInit
  /\ ChatInit
  /\ registry = StartupRegistry(TRUE)
  /\ ExecInit
  /\ UnitsIdle

OrchSpec == OrchSpecInit /\ [][OrchNext]_vars

\* The two execution tools under any sequence of execute calls
ExecSpecInit ==
  /\ ExecInit
  /\ ChatInit
  /\ registry = StartupRegistry(FALSE)
  /\ OrchUnused
  /\ UnitsIdle

ExecSpec == ExecSpecInit /\ [][ExecNext]_vars

\* One ToolRegistry under any sequence of method calls
RegistrySpecInit ==
  /\ RegistryInit
  /\ PrepareIdle
  /\ AnalyzerIdle
  /\ ChatInit
  /\ registry = StartupRegistry(TRUE)
  /\ OrchUnused
  /\ ExecInit
  /\ RequestsIdle

RegistrySpec == RegistrySpecInit /\ [][RegistryNext]_vars

\* The message list of one chat request through the iterations of its loop
PrepareSpecInit ==
  /\ current_messages \in ListsUpTo(RequestMessages, MaxMessages)
  /\ prepared = << >>
  /\ prepare_calls = 0
  /\ tool_turns = 0
  /\ RegistryIdle
  /\ AnalyzerIdle
  /\ ChatInit
  /\ registry = StartupRegistry(TRUE)
  /\ OrchUnused
  /\ ExecInit
  /\ RequestsIdle

PrepareSpec == PrepareSpecInit /\ [][PrepareNext]_vars

\* One CodeAnalyzer given one program after the other
AnalyzerSpecInit ==
  /\ AnalyzerIdle
  /\ RegistryIdle
  /\ PrepareIdle
  /\ ChatInit
  /\ registry = StartupRegistry(TRUE)
  /\ OrchUnused
  /\ ExecInit
  /\ RequestsIdle

AnalyzerSpec == AnalyzerSpecInit /\ [][AnalyzerNext]_vars

\* One CodeAnalyzer, just constructed, under any sequence of analyses
AnalyzerCallsInit ==
  /\ analyzed = [language |-> "python", code |-> "", tree |-> Module(<< >>)]
  /\ analysis = << TRUE, << NoneVal >>, << >> >>
  /\ aliases_before = EmptyDict
  /\ RequestsIdle
  /\ RegistryIdle
  /\ PrepareIdle
  /\ ChatInit
  /\ registry = StartupRegistry(TRUE)
  /\ OrchUnused
  /\ ExecInit

AnalyzerCallsSpec == AnalyzerCallsInit /\ [][AnalyzerCallsNext]_vars

\* Two chat requests at once, all four tools registered
ConcurrentInit ==
  /\ RequestsIdle
  /\ RegistryIdle
  /\ PrepareIdle
  /\ AnalyzerIdle
  /\ ChatInit
  /\ registry = StartupRegistry(FALSE)
  /\ OrchUnused
  /\ ExecInit

ConcurrentSpec == ConcurrentInit /\ [][ConcurrentNext]_vars


\* Assuming every stream ends and every tool execution returns or raises, the
\* generator is resumed until it returns.
FairSpec == Spec /\ WF_vars(ChatNext)

(***************************************************************************)
(* Properties of the response delta accumulator.                           *)
(***************************************************************************)
\* The tool-call fragments of this turn that carry an index, in arrival order
RECURSIVE ReceivedFragments(_)
ReceivedFragments(ds) ==
  IF ds = <<>> THEN <<>>
  ELSE SelectSeq(Head(ds).tool_calls, LAMBDA f : f.has_index)
       \o ReceivedFragments(Tail(ds))

RECURSIVE ConcatArguments(_)
ConcatArguments(fs) ==
  IF fs = <<>> THEN <<>> ELSE Head(fs).arguments \o ConcatArguments(Tail(fs))

\* The last non-empty value of a field among fs, or dflt
RECURSIVE LastGiven(_, _, _)
LastGiven(fs, get(_), dflt) ==
  IF fs = <<>> THEN dflt
  ELSE IF get(Last(fs)) # "" THEN get(Last(fs))
  ELSE LastGiven(SubSeq(fs, 1, Len(fs) - 1), get, dflt)

IdOf(f) == f.id
NameOf(f) == f.name

\* C1: whatever the arrival order of the indices, tool_calls has one entry for
\* every position 0..max index seen, skipped positions hold placeholders, and
\* entry i holds exactly what was received for index i.
C1_NoGapsIndexOrder ==
  LET fs   == ReceivedFragments(deltas)
      seen == { fs[k].index : k \in 1..Len(fs) }
  IN  /\ seen = {} => tool_calls = <<>>
      /\ seen # {} => Len(tool_calls) = 1 + CHOOSE m \in seen : \A j \in seen : j <= m
      /\ \A i \in 0..(Len(tool_calls) - 1) :
           LET mine == SelectSeq(fs, LAMBDA f : f.index = i)
               e    == tool_calls[i + 1]
           IN  /\ e.arguments = ConcatArguments(mine)
               /\ e.id = LastGiven(mine, IdOf, PlaceholderId(i))
               /\ e.name = LastGiven(mine, NameOf, "")

\* Index 2 arrived first (0 and 1 skipped), then index 0.
C1_Witness ==
  /\ Len(deltas) = 2
  /\ deltas[1].tool_calls = <<Frag(TRUE, 2, "", "", <<>>)>>
  /\ deltas[2].tool_calls = <<Frag(TRUE, 0, "call_a", "file_read", <<>>)>>
  /\ Len(tool_calls) = 3
  /\ tool_calls[1].id = "call_a"
  /\ tool_calls[2] = PlaceholderEntry(1)

(***************************************************************************)
(* Properties of the Thought built while a turn streams.                   *)
(***************************************************************************)
\* Positions of the events yielded while the turn was streaming
StreamPhase ==
  { i \in 1..Len(events) : \A j \in 1..i : events[j].type # "tool_call" }

RECURSIVE ConcatReasoningEvents(_, _)
ConcatReasoningEvents(evs, i) ==
  IF i = 0 THEN <<>>
  ELSE ConcatReasoningEvents(evs, i - 1)
       \o (IF evs[i].type = "reasoning" THEN evs[i].data ELSE <<>>)

RECURSIVE ConcatReasoningDeltas(_)
ConcatReasoningDeltas(ds) ==
  IF ds = <<>> THEN <<>> ELSE Head(ds).reasoning \o ConcatReasoningDeltas(Tail(ds))

\* C2: all Thought events of a streaming turn are one step, and each carries
\* the concatenation of the reasoning fragments received so far.
C2_OneThoughtPerTurn ==
  LET thoughts == { i \in StreamPhase : IsStep(events[i], "thought") }
  IN  /\ \A i, j \in thoughts : events[i].data.id = events[j].data.id
      /\ \A i \in thoughts : events[i].data.content = ConcatReasoningEvents(events, i)
      /\ Cardinality(thoughts)
           = Cardinality({ k \in 1..Len(deltas) : deltas[k].reasoning # <<>> })
      /\ (pc = "stream" /\ ConcatReasoningDeltas(deltas) # <<>>)
           => /\ last_step.type = "thought"
              /\ last_step.content = ConcatReasoningDeltas(deltas)

\* Two reasoning deltas in a turn that began after an Observation.
C2_Witness ==
  /\ iteration = 2
  /\ carried = "observation"
  /\ Len(deltas) = 2
  /\ deltas[1].reasoning = <<FragLetMe>>
  /\ deltas[2].reasoning = <<FragWord>>
  /\ last_step.content = <<FragLetMe, FragWord>>
  /\ Count(events, LAMBDA e : IsStep(e, "thought")) = 2

\* C35: a reasoning chunk after which extract_thought_title returns None for
\* the reasoning accumulated leaves the title of the turn's Thought as it was
\* (the same step, its title neither cleared nor replaced) and sets its
\* content to the accumulated reasoning; the chunk yields the reasoning event
\* and the Thought, no error event, and the stream goes on.
C35_MissingTitleKeepsTitle ==
  [][ (/\ pc = "stream"
       /\ Len(deltas') = Len(deltas) + 1
       /\ Last(deltas').reasoning # <<>>
       /\ extract_thought_title(current_reasoning') = <<NoneVal>>)
      => /\ last_step'.type = "thought"
         /\ last_step'.content = current_reasoning'
         /\ last_step.type = "thought" =>
              /\ last_step'.id = last_step.id
              /\ last_step'.title = last_step.title
         /\ last_step.type # "thought" => last_step'.title = <<NoneVal>>
         /\ \A i \in (Len(events) + 1)..Len(events') : events'[i].type # "error"
         /\ Last(events') = StreamEvent("react_step", last_step')
         /\ pc' = "stream" ]_vars

\* The first chunk's reasoning gave the Thought a title; with the second
\* chunk the text is 60 characters long and yields none: the title stayed.
C35_Witness ==
  /\ pc = "stream"
  /\ Len(deltas) = 2
  /\ deltas[1].reasoning = <<FragWord>>
  /\ deltas[2].reasoning = <<FragWord>>
  /\ extract_thought_title(current_reasoning) = <<NoneVal>>
  /\ last_step.type = "thought"
  /\ last_step.content = <<FragWord, FragWord>>
  /\ last_step.title = extract_thought_title(<<FragWord>>)
  /\ last_step.title # <<NoneVal>>

(***************************************************************************)
(* Properties of the event stream.                                         *)
(***************************************************************************)
\* C5: every Action event directly follows (among react_step events) a Thought;
\* when the last step was no Thought, the placeholder is yielded between the
\* tool_call event and the Action.
C5_ThoughtBeforeAction ==
  \A i \in 1..Len(events) :
    IsStep(events[i], "action") =>
      /\ LastReactType(events, i, carried) = "thought"
      /\ i >= 2
      /\ LET name == events[i].data.tool_call.name
             here == IF events[i - 1].type = "tool_call" THEN i - 1 ELSE i - 2
         IN  /\ here >= 1
             /\ events[here].type = "tool_call"
             /\ events[here].data = events[i].data.tool_call
             /\ IF LastReactType(events, here, carried) = "thought"
                  THEN here = i - 1
                  ELSE /\ here = i - 2
                       /\ IsStep(events[i - 1], "thought")
                       /\ events[i - 1].data.title = <<"Implicit reasoning">>
                       /\ events[i - 1].data.content
                            = <<"Executing tool call without explicit reasoning: ", name>>

\* A turn with reasoning and two tool calls: the first Action follows the
\* reasoning Thought, the second a placeholder.
C5_Witness ==
  /\ Count(events, LAMBDA e : IsStep(e, "action")) = 2
  /\ Count(events, LAMBDA e : e.type = "reasoning") = 1
  /\ Count(events, LAMBDA e : IsStep(e, "thought")
                              /\ e.data.title = <<"Implicit reasoning">>) = 1

TerminalCount == sent_terminal + Count(events, IsTerminal)

\* C6: at most 10 streaming requests per chat request; after the 10th turn the
\* loop exits with done.
C6_AtMostTenRequests ==
  /\ api_requests <= 10
  /\ api_requests = iteration
  /\ (iteration = 10 /\ pc \notin {"stream", "tool", "exec", "loop"})
       => (pc = "closed" /\ IsTerminal(Last(events)))
  /\ (pc = "closed" /\ tool_calls # <<>> /\ tc_pos = Len(tool_calls)
        /\ Last(events).type # "error")
       => (iteration = 10 /\ Last(events).type = "done")

\* The 10th turn requested a tool, and the request ended with done.
C6_Witness ==
  /\ api_requests = 10
  /\ pc = "closed"
  /\ tool_calls # <<>>
  /\ tc_pos = Len(tool_calls)
  /\ Last(events).type = "done"

\* C7: a finished run holds exactly one terminal event, its last; a running one
\* holds none.
C7_OneTerminalEventLast ==
  /\ TerminalCount <= 1
  /\ sent_terminal = 0
  /\ \A i \in 1..Len(events) : IsTerminal(events[i]) => i = Len(events)
  /\ pc = "closed" <=> TerminalCount = 1

\* The stream failed after content and reasoning had been forwarded.
C7_Witness ==
  /\ pc = "closed"
  /\ Len(events) >= 3
  /\ Last(events) = StreamEvent("error", "DeepSeek request error")

\* C8: every chat request eventually yields its terminal event and returns.
C8_EventuallyTerminal == <>(pc = "closed" /\ TerminalCount = 1)

\* A tool raised in the 2nd iteration and the stream of the 3rd broke.
C8_Witness ==
  /\ pc = "closed"
  /\ iteration = 3
  /\ Last(events) = StreamEvent("error", "Internal server error")

(***************************************************************************)
(* The orchestrator's counter and its ceiling.                             *)
(***************************************************************************)
\* the step just taken is a call of the method `name'
CallOf(name) == calls' = calls + 1 /\ op' = name

C23_ObservationReportsItsAction ==
  \A i \in 1..Len(events) :
    IsStep(events[i], "observation") =>
      /\ (events[i].data.result = NoneVal \/ events[i].data.error = NoneVal)
      /\ i > 1
      /\ events[i - 1].type \in {"tool_result", "tool_error"}
      /\ \E j \in 1..(i - 1) :
           /\ IsStep(events[j], "action")
           /\ \A k \in (j + 1)..(i - 1) : ~IsStep(events[k], "action")
           /\ events[i].data.action_id = events[j].data.id
           /\ events[i - 1].data.toolCallId = events[j].data.tool_call.id

\* A turn with two tool calls: the first returned a result, the second
\* failed; each Observation names its own Action.
C23_Witness ==
  /\ pc = "loop"
  /\ tc_pos = 2
  /\ \E i, j \in 1..Len(events) :
       /\ i < j
       /\ IsStep(events[i], "observation")
       /\ IsStep(events[j], "observation")
       /\ events[i].data.result = "data"
       /\ events[i].data.error = NoneVal
       /\ events[j].data.result = NoneVal
       /\ events[j].data.error = "Path is required"
       /\ events[i].data.action_id # events[j].data.action_id

\* C27: no step of a chat request registers, unregisters or clears: the
\* registry holds what startup registration left in it, before and after
\* every step of the request.
C27_RegistryReadOnly ==
  /\ [](registry \in {StartupRegistry(TRUE), StartupRegistry(FALSE)})
  /\ [][registry' = registry]_vars

\* In its second turn a request looked two tools up in the registry, found
\* one and missed one, and the registry is as startup left it.
C27_Witness ==
  /\ pc = "loop"
  /\ iteration = 2
  /\ tc_pos = 2
  /\ registry = StartupRegistry(TRUE)
  /\ tool_calls[1].name \in registry
  /\ tool_calls[2].name \notin registry

\* the step just taken is a call of the registry method `name'
RegistryCallOf(name) == reg_calls' = reg_calls + 1 /\ reg_op' = name

\* C26: registering a tool under a name that is bound raises ValueError and
\* leaves the registry as it was, the original tool still bound; registering
\* under a free name binds it; unregistering a name that is not bound raises
\* KeyError and leaves the registry as it was; and after any sequence of
\* register, unregister and clear every bound name maps to one tool, which
\* bears that name.
C26_DuplicateAndUnknownFail ==
  /\ [](\A name \in DOMAIN _tools : _tools[name].name = name)
  /\ [][ /\ RegistryCallOf("register") =>
             IF reg_arg'.name \in DOMAIN _tools
               THEN reg_raised' = "ValueError" /\ _tools' = _tools
               ELSE /\ reg_raised' = NoneVal
                    /\ DOMAIN _tools' = DOMAIN _tools \cup {reg_arg'.name}
                    /\ _tools'[reg_arg'.name] = reg_arg'
                    /\ \A name \in DOMAIN _tools : _tools'[name] = _tools[name]
         /\ RegistryCallOf("unregister") =>
             IF reg_arg' \notin DOMAIN _tools
               THEN reg_raised' = "KeyError" /\ _tools' = _tools
               ELSE /\ reg_raised' = NoneVal
                    /\ DOMAIN _tools' = DOMAIN _tools \ {reg_arg'}
                    /\ \A name \in DOMAIN _tools' : _tools'[name] = _tools[name] ]_vars

\* With two names bound, a second file_read tool was refused and the first
\* stayed bound.
C26_Witness ==
  /\ reg_op = "register"
  /\ reg_arg = ToolObject("file_read", 2)
  /\ reg_raised = "ValueError"
  /\ DOMAIN _tools = {"file_read", "python_exec"}
  /\ _tools["file_read"] = ToolObject("file_read", 1)
  /\ reg_calls = 4

\* the model requires reasoning_content on this message
NeedsReasoning(msg) == msg.role = "assistant" /\ Truthy(msg.tool_calls)

\* C25: in every iteration, each message _prepare_messages returns carries
\* reasoning_content if and only if it is an assistant message with a
\* non-empty tool_calls; on such a message a missing, None or empty
\* reasoning_content becomes the empty string and any other value is kept;
\* on every other message the key is removed; role and tool_calls are
\* passed through, in order, after the system message.
C25_ReasoningOnlyWithToolCalls ==
  /\ [](\A i \in 1..Len(prepared) :
          /\ prepared[i].reasoning_content.has <=> NeedsReasoning(prepared[i])
          /\ prepared[i].reasoning_content.has =>
                prepared[i].reasoning_content.value # << NoneVal >>)
  /\ [][ prepare_calls' = prepare_calls + 1 =>
           LET n   == Len(current_messages)
               off == Len(prepared') - n
           IN  /\ off \in {0, 1}
               /\ off = 1 => prepared'[1] = SystemDict
               /\ \A i \in 1..n :
                    LET m == current_messages[i]
                        q == prepared'[off + i]
                    IN  /\ q.role = m.role
                        /\ q.tool_calls = m.tool_calls
                        /\ q.reasoning_content =
                             IF ~NeedsReasoning(m) THEN Missing
                             ELSE IF Truthy(m.reasoning_content) THEN m.reasoning_content
                             ELSE Given(<< >>) ]_vars

\* The second request of a chat: after the system message, an assistant
\* message with an empty tool_calls and no reasoning_content, one with tool
\* calls and the empty string, then the assistant message of the tool turn
\* with its reasoning and the tool message without.
C25_Witness ==
  /\ prepare_calls = 2
  /\ Len(prepared) = 5
  /\ prepared[1] = SystemDict
  /\ prepared[2] = MessageDict("assistant", Given(<< >>), Missing)
  /\ prepared[3] = MessageDict("assistant", Given(<< "call_a" >>), Given(<< >>))
  /\ prepared[4] = AssistantDict(<< FragWord >>)
  /\ prepared[5] = ToolDict

\* C29: for every restricted module M, every function f of M's dangerous
\* set and every alias A, "import M as A; A.f()" is classified unsafe, the
\* one operation detected being "call to M.f", exactly as the unaliased
\* "import M; M.f()" is.
C29_AliasedCallIsUnsafe ==
  \A M \in DOMAIN restricted_modules :
    \A f \in restricted_modules[M].dangerous :
      \A A \in Aliases :
        analyzed = AliasedCall(M, A, f) =>
          /\ analysis = << FALSE,
                           << "Code contains modification operations: ",
                              "call to ", M, ".", f >>,
                           << << "call to ", M, ".", f >> >> >>
          /\ analysis = analyze_python_code(AliasedCall(M, NoneVal, f))

\* shutil imported under the name of another restricted module, sys, and
\* its rmtree called through that name.
C29_Witness ==
  /\ analyzed = AliasedCall("shutil", "sys", "rmtree")
  /\ analysis[1] = FALSE
  /\ analysis[3] = << << "call to ", "shutil", ".", "rmtree" >> >>

\* C30: for every restricted module M and every function f of its dangerous
\* set, "from M import f" or "from M import f as g" followed by a direct
\* call of the imported name is classified unsafe.
C30_FromImportCallIsUnsafe ==
  \A M \in DOMAIN restricted_modules :
    \A f \in restricted_modules[M].dangerous :
      \A g \in { NoneVal, "g" } :
        analyzed = FromImportCall(M, f, g) => analysis[1] = FALSE

\* the call resolves, through the alias table of the program, to a function
\* listed in the dangerous set of a restricted module
ResolvesToDangerous(call, aliases) ==
  IF call.func.node = "Name"
    THEN LET resolved == DictGet(aliases, call.func.id, << call.func.id >>)
         IN  /\ Len(resolved) = 2
             /\ resolved[1] \in DOMAIN restricted_modules
             /\ resolved[2] \in restricted_modules[resolved[1]].dangerous
    ELSE _check_attribute_call(aliases, _extract_attribute_chain(call.func))
           # << NoneVal >>

\* C31: a call is flagged only if it resolves, through the alias table, to
\* a function of a restricted module's dangerous set: a program with a
\* detected call holds a call that so resolves, so a call of a restricted
\* module's function that is not listed and a call of a user-defined
\* function named write or open are not flagged.
C31_OnlyDangerousPairsFlagged ==
  (\E i \in 1..Len(analysis[3]) : analysis[3][i][1] = "call to ") =>
    \E k \in 1..Len(analyzed.body) :
      /\ analyzed.body[k].node = "Call"
      /\ ResolvesToDangerous(analyzed.body[k],
                             CollectImports(analyzed.body, EmptyDict))

(***************************************************************************)
(* The analysis of JavaScript.                                             *)
(***************************************************************************)
\* the methods of FsMethods in the write/delete subset: those whose name
\* begins with write, append, unlink, rmdir, mkdir, rename, chmod or chown
WriteDeleteMethods ==
  { "writeFile", "writeSync", "appendFile", "unlink", "unlinkSync", "rmdir",
    "mkdir", "rename", "chmod", "chown" }

\* C33: JavaScript code that is one access fs.<method>('a') is flagged, by
\* the operation "fs operation", and classified unsafe exactly when the
\* method is in the write/delete subset; fs.readFile('a') is classified safe
\* with nothing detected and fs.writeFile('a') unsafe.
C33_FsAccessFlaggedIffWrite ==
  analyzed.language = "javascript" =>
    /\ \A method \in FsMethods :
         analyzed.code = FsAccess(method) =>
           /\ (\E i \in 1..Len(analysis[3]) : analysis[3][i] = << "fs operation" >>)
                <=> method \in WriteDeleteMethods
           /\ analysis[1] <=> method \notin WriteDeleteMethods
    /\ analyzed.code = FsAccess("readFile") =>
         analysis = << TRUE, << NoneVal >>, << >> >>
    /\ analyzed.code = FsAccess("writeFile") =>
         /\ ~ analysis[1]
         /\ analysis[2][1] = "Code contains modification operations: "

\* fs.unlinkSync('a') was analyzed and flagged as an fs operation only.
C33_Witness ==
  /\ analyzed.language = "javascript"
  /\ analyzed.code = FsAccess("unlinkSync")
  /\ ~ analysis[1]
  /\ analysis[3] = << << "fs operation" >> >>

\* the code calls eval, constructs a Function, names a write/delete method
\* of fs or a process-spawning API
UsesMutationApi(code) ==
  \E i \in 1..Len(code) :
    \/ code[i] = "eval" /\ SkipSpace(code, i + 1) <= Len(code)
                        /\ code[SkipSpace(code, i + 1)] = "("
    \/ code[i] = "new" /\ SkipSpace(code, i + 1) <= Len(code)
                       /\ code[SkipSpace(code, i + 1)] = "Function"
    \/ code[i] \in WriteDeleteMethods
    \/ code[i] \in { "exec", "spawn", "child_process" }

\* C34: JavaScript code that uses no mutation-indicating API is classified
\* safe, a declaration with the function keyword included: only eval(...),
\* new Function(...), write/delete fs APIs and process-spawning APIs are flagged.
C34_OnlyMutationApisFlagged ==
  (analyzed.language = "javascript" /\ ~ UsesMutationApi(analyzed.code)) =>
    analysis[1]

\* the alias table of a CodeAnalyzer just constructed (70-71)
FreshAliases == EmptyDict

\* what a CodeAnalyzer just constructed returns for the program
FreshAnalysis(language, code, tree) ==
  IF language = "javascript" THEN analyze_javascript_code(code)
  ELSE IF tree.raised = "SyntaxError" THEN << TRUE, << NoneVal >>, << >> >>
  ELSE IF tree.raised # NoneVal
    THEN << FALSE, << "Code analysis failed: ", tree.msg >>, << >> >>
  ELSE
    LET detected_ops ==
          DetectOps(tree.body,
                    CollectImports(tree.body, ResetAliases(FreshAliases)))
    IN  IF detected_ops # << >>
          THEN << FALSE,
                  << "Code contains modification operations: " >>
                    \o join(", ", detected_ops),
                  detected_ops >>
          ELSE << TRUE, << NoneVal >>, << >> >>

\* what the analyzer of a tool answers for a call when only the calls of one
\* request went through it and left the table self_module_aliases
AloneVerdict(self_module_aliases, call) ==
  IF call.tool # "python_exec"
    THEN LET found == analyze_javascript_code(call.code)
         IN  << found[1], found[2] >>
  ELSE IF call.tree.raised = "SyntaxError" THEN << TRUE, << NoneVal >> >>
  ELSE IF call.tree.raised # NoneVal
    THEN << FALSE, << "Code analysis failed: ", call.tree.msg >> >>
  ELSE
    LET detected_ops ==
          DetectOps(call.tree.body,
                    CollectImports(call.tree.body,
                                   ResetAliases(self_module_aliases)))
    IN  IF detected_ops # << >>
          THEN << FALSE,
                  << "Code contains modification operations: " >>
                    \o join(", ", detected_ops) >>
          ELSE << TRUE, << NoneVal >> >>

\* the table that call leaves on that analyzer
AloneAliases(self_module_aliases, call) ==
  IF call.tool = "python_exec" /\ call.tree.raised = NoneVal
    THEN CollectImports(call.tree.body, ResetAliases(self_module_aliases))
    ELSE self_module_aliases

RECURSIVE AloneTable(_)
\* the table after the request made the calls of script with nobody else
AloneTable(script) ==
  IF script = << >> THEN EmptyDict
  ELSE AloneAliases(AloneTable(SubSeq(script, 1, Len(script) - 1)),
                    script[Len(script)].call)

\* the k-th call of script has an outcome it can have when the request runs
\* alone: the refusal of the analyzer, or what the subprocess left
AloneOutcome(script, k) ==
  LET checked == AloneVerdict(AloneTable(SubSeq(script, 1, k - 1)), script[k].call)
  IN  IF checked[1]
        THEN script[k].result \in ProcessResults
        ELSE script[k].result = ToolResult(FALSE, NoneVal, checked[2])

RECURSIVE AloneEvents(_)
AloneEvents(script) ==
  IF script = << >> THEN << >>
  ELSE AloneEvents(SubSeq(script, 1, Len(script) - 1))
         \o ToolEvents(script[Len(script)].call, script[Len(script)].result)

RECURSIVE AloneHistory(_)
AloneHistory(script) ==
  IF script = << >> THEN << >>
  ELSE Append(AloneHistory(SubSeq(script, 1, Len(script) - 1)),
              ToolTurn(script[Len(script)].call, script[Len(script)].result))

\* C39: however two requests interleave at their suspension points, what
\* each has yielded and appended is what it yields and appends when it runs
\* alone with the same answers of the chat API and the same subprocess
\* outcomes: every call was refused or run as an analyzer used by this
\* request only decides, the events and the tool messages are those of
\* these calls in order, and a request waiting for a subprocess would wait
\* for it alone too.
C39_RequestsDoNotInterfere ==
  \A r \in Requests :
    LET req == requests[r]
    IN  /\ \A k \in 1..Len(req.script) : AloneOutcome(req.script, k)
        /\ req.events =
             AloneEvents(req.script)
               \o (IF req.pc = "closed" THEN << StreamEvent("done", << >>) >>
                                        ELSE << >>)
        /\ req.history = AloneHistory(req.script)
        /\ req.pc = "exec" =>
             AloneVerdict(AloneTable(req.script), req.call)[1]

\* Request 2 had its import of os as o refused, which left o bound in the
\* shared table; request 1 then asked for o.remove('f') and waits for the
\* subprocess.
C39_Witness ==
  /\ Len(requests[2].script) = 1
  /\ requests[2].script[1].call.tool = "python_exec"
  /\ requests[2].script[1].call.code = "import os as o; o.remove('f')"
  /\ ~ requests[2].script[1].result.success
  /\ requests[1].script = << >>
  /\ requests[1].pc = "exec"
  /\ requests[1].call.tool = "python_exec"
  /\ requests[1].call.code = "o.remove('f')"
  /\ module_aliases = EmptyDict

\* C38: whatever was analyzed before on the same CodeAnalyzer, the result
\* for a program is the result a CodeAnalyzer just constructed gives for that
\* code and language, and the alias table left by a Python program that
\* parsed holds the imports of that program alone; a program that does not
\* parse, or JavaScript, leaves the table as it was and is not affected by it.
C38_VerdictIndependentOfHistory ==
  /\ analysis = FreshAnalysis(analyzed.language, analyzed.code, analyzed.tree)
  /\ (analyzed.language = "python" /\ analyzed.tree.raised = NoneVal) =>
       module_aliases = CollectImports(analyzed.tree.body, FreshAliases)
  /\ (analyzed.language = "javascript" \/ analyzed.tree.raised # NoneVal) =>
       module_aliases = aliases_before

\* o.remove('f'), which imports nothing, was analyzed while the table still
\* bound o to os from a program before: it is classified safe.
C38_Witness ==
  /\ analyzed.language = "python"
  /\ analyzed.code = "o.remove('f')"
  /\ "o" \in DOMAIN aliases_before
  /\ aliases_before["o"] = << "os" >>
  /\ analysis = << TRUE, << NoneVal >>, << >> >>
  /\ module_aliases = EmptyDict

AnalyzerVerdicts(tool, code) ==
  IF tool = "python_exec"
    THEN { << analyze_python_code(tree)[1], analyze_python_code(tree)[2] >> :
             tree \in ast_parse(code) }
    ELSE { << analyze_javascript_code(code)[1], analyze_javascript_code(code)[2] >> }

\* C9: an interpreter is spawned only for the code of the call, after the
\* analyzer classified exactly that code safe (what node is handed, the code
\* with its quotes escaped, is classified safe as well); code the analyzer
\* rejects spawns nothing and returns a failure carrying the analyzer's message.
C9_SpawnOnlyAfterSafeVerdict ==
  /\ proc.state # "none" =>
       /\ ~ Empty(exec_tool, exec_code)
       /\ verdict[1]
       /\ verdict \in AnalyzerVerdicts(exec_tool, exec_code)
       /\ proc.argv = Argv(exec_tool, exec_code)
       /\ exec_tool = "js_exec" => analyze_javascript_code(proc.argv[3])[1]
  /\ (exec_pc # "idle" /\ ~ Empty(exec_tool, exec_code)) =>
       /\ verdict \in AnalyzerVerdicts(exec_tool, exec_code)
       /\ ~ verdict[1] =>
            /\ proc.state = "none"
            /\ exec_pc = "returned"
            /\ exec_result = ToolResult(FALSE, NoneVal, verdict[2])

\* After a call that ran an interpreter, js_exec refused code that writes a file.
C9_Witness ==
  /\ exec_pc = "returned"
  /\ exec_calls = 2
  /\ exec_tool = "js_exec"
  /\ exec_code = << "fs", ".", "writeFile", "(", ")" >>
  /\ proc.state = "none"
  /\ exec_result.error =
       << "Code contains modification operations: ", "writeFile", ", ",
          "fs operation" >>

\* C10: a call whose wait timed out returns a failure whose error names the
\* timeout, and the interpreter is gone (exited and collected) by then.
C10_TimeoutKillsAndReports ==
  (exec_pc = "returned" /\ timed_out) =>
    /\ ~ exec_result.success
    /\ exec_result.error = << TimeoutMessage(exec_tool) >>
    /\ proc.state = "closed"

\* C11: once the request is cancelled during an execute call, the interpreter
\* of that call gets no further run time: it does not go on towards completion.
C11_CancelTerminatesProcess ==
  [][ exec_pc = "cancelled" => elapsed' = elapsed ]_vars

\* C28: a call whose interpreter ran to its end within the timeout and
\* exited with a non-zero status returns a failure carrying the captured
\* error text, for the Python and the JavaScript tool alike.
C28_NonZeroExitIsFailure ==
  (/\ exec_pc = "returned"
   /\ ~ timed_out
   /\ proc.state = "closed"
   /\ proc.returncode # 0) =>
    /\ ~ exec_result.success
    /\ exec_result.error = << proc.stderr >>

\* C32: an analysis that ends in an exception other than SyntaxError gives
\* the verdict unsafe with no detected operation and the reason "Code analysis
\* failed: ..."; the call that got this verdict spawned nothing and returned
\* the failure carrying that reason; a verdict safe is only ever the verdict of
\* a parse that succeeded or raised SyntaxError, and the JavaScript analysis,
\* which has no failure of its own, says safe or names the operations found.
C32_AnalyzerFailsClosed ==
  /\ \A code \in PythonPrograms : \A tree \in ast_parse(code) :
       tree.raised \notin { NoneVal, "SyntaxError" } =>
         /\ ~ analyze_python_code(tree)[1]
         /\ analyze_python_code(tree)[2][1] = "Code analysis failed: "
         /\ analyze_python_code(tree)[3] = << >>
  /\ (exec_pc # "idle" /\ ~ Empty(exec_tool, exec_code)) =>
       /\ verdict[2][1] = "Code analysis failed: " =>
            /\ exec_tool = "python_exec"
            /\ \E tree \in ast_parse(exec_code) :
                 tree.raised \notin { NoneVal, "SyntaxError" }
            /\ ~ verdict[1]
            /\ proc.state = "none"
            /\ exec_pc = "returned"
            /\ exec_result = ToolResult(FALSE, NoneVal, verdict[2])
       /\ (verdict[1] /\ exec_tool = "python_exec") =>
            \E tree \in ast_parse(exec_code) :
              /\ tree.raised \in { NoneVal, "SyntaxError" }
              /\ analyze_python_code(tree)[1]
       /\ exec_tool = "js_exec" =>
            \/ verdict = << TRUE, << NoneVal >> >>
            \/ /\ ~ verdict[1]
               /\ verdict[2][1] = "Code contains modification operations: "
               /\ analyze_javascript_code(exec_code)[3] # << >>

\* ast.parse raised ValueError on the NUL byte: nothing ran, the call failed.
C32_Witness ==
  /\ exec_pc = "returned"
  /\ exec_tool = "python_exec"
  /\ exec_code = "x = 'NUL'"
  /\ verdict[2][1] = "Code analysis failed: "
  /\ proc.state = "none"
  /\ ~ exec_result.success

(***************************************************************************)
(* Properties of a turn that requested tools.                              *)
(***************************************************************************)
\* the while test is about to be evaluated, or was and ended the loop
AtLoopBoundary ==
  \/ pc = "loop"
  \/ pc = "closed" /\ tc_pos >= 1 /\ Last(events).type = "done"

\* calls of this turn whose outcome has been dealt with
CallsDone == IF AtLoopBoundary THEN tc_pos ELSE IF tc_pos >= 1 THEN tc_pos - 1 ELSE 0

\* C12: the messages a tool turn appends are one assistant message listing
\* all N tool calls, then one tool-role message per call dealt with, whose
\* tool_call_id values follow the order of the array; at the loop boundary
\* there are exactly N of them.  A turn without tool calls appends nothing.
C12_AssistantThenToolMessages ==
  /\ tc_pos = 0 => appended = <<>>
  /\ AtLoopBoundary => (tool_calls # <<>> /\ CallsDone = Len(tool_calls))
  /\ tc_pos >= 1 =>
       /\ Len(appended) = 1 + CallsDone
       /\ appended[1].role = "assistant"
       /\ Len(appended[1].tool_calls) = Len(tool_calls)
       /\ appended[1].tool_calls = tool_calls
       /\ \A k \in 1..CallsDone :
            /\ appended[k + 1].role = "tool"
            /\ appended[k + 1].tool_call_id = tool_calls[k].id

\* A turn of three calls, the middle one a placeholder, is at the loop test.
C12_Witness ==
  /\ pc = "loop"
  /\ Len(tool_calls) = 3
  /\ Len(appended) = 4
  /\ appended[3].tool_call_id = PlaceholderId(1)
  /\ appended[4].tool_call_id = tool_calls[3].id

IsToolCallEvent(e) == e.type = "tool_call"
IsOutcomeEvent(e) == e.type \in {"tool_result", "tool_error"}

\* C13: the calls are taken in array order, one at a time: a tool_call event
\* is yielded only when every earlier call has its outcome event and its tool
\* message, and a call is in progress exactly while its tool is awaited.
C13_OneCallAtATimeInOrder ==
  LET started  == SelectSeq(events, IsToolCallEvent)
      finished == SelectSeq(events, IsOutcomeEvent)
  IN  /\ Len(started) - Len(finished) \in {0, 1}
      /\ Len(started) - Len(finished) = 1 <=> pc = "exec"
      /\ pc = "exec" => Len(started) = tc_pos
      /\ \A k \in 1..Len(started) : started[k].data.id = tool_calls[k].id
      /\ \A k \in 1..Len(finished) : finished[k].data.toolCallId = tool_calls[k].id
      /\ \A p \in 1..Len(events) :
           IsToolCallEvent(events[p]) =>
             Count(SubSeq(events, 1, p - 1), IsToolCallEvent)
               = Count(SubSeq(events, 1, p - 1), IsOutcomeEvent)
      /\ tc_pos >= 1 => Len(appended) = 1 + Len(finished)

\* The second call of a turn is being executed; the first has its tool message.
C13_Witness ==
  /\ pc = "exec"
  /\ tc_pos = 2
  /\ Len(appended) = 2
  /\ appended[2].tool_call_id = tool_calls[1].id
  /\ Count(events, IsOutcomeEvent) = 1

\* the events of the turn from the tool_call event at p up to the next
\* tool_call event or the terminal event
CallEvents(p) ==
  LET later == { q \in (p + 1)..Len(events) :
                   IsToolCallEvent(events[q]) \/ IsTerminal(events[q]) }
      last  == IF later = {} THEN Len(events)
               ELSE (CHOOSE q \in later : \A r \in later : q <= r) - 1
  IN  SubSeq(events, p, last)

\* C37: the events of every tool call are, in this order, its tool_call
\* event, a placeholder Thought or none, one Action, one tool_result or
\* tool_error, one Observation (the last two missing only while the tool of
\* the call is awaited); the Observation has the result of the tool_result
\* event and no result after tool_error, an error only after tool_error, and
\* the tool messages appended are those of the calls whose Observation is out.
C37_EventsOfAToolCall ==
  LET starts == { p \in 1..Len(events) : IsToolCallEvent(events[p]) }
  IN  /\ \A p \in starts :
           LET seg    == CallEvents(p)
               a      == IF Len(seg) >= 2 /\ IsStep(seg[2], "thought") THEN 3 ELSE 2
               k      == Count(SubSeq(events, 1, p), IsToolCallEvent)
           IN  /\ Len(seg) \in { a, a + 2 }
               /\ IsStep(seg[a], "action")
               /\ seg[a].data.tool_call.id = seg[1].data.id
               /\ Len(seg) = a <=> (pc = "exec" /\ k = tc_pos)
               /\ Len(seg) = a + 2 =>
                    /\ IsOutcomeEvent(seg[a + 1])
                    /\ seg[a + 1].data.toolCallId = seg[1].data.id
                    /\ IsStep(seg[a + 2], "observation")
                    /\ seg[a + 2].data.action_id = seg[a].data.id
                    /\ seg[a + 1].type = "tool_result" <=>
                         seg[a + 2].data.result # NoneVal
                    /\ seg[a + 1].type = "tool_result" =>
                         /\ seg[a + 2].data.result = seg[a + 1].data.result
                         /\ seg[a + 2].data.error = NoneVal
                    /\ Len(appended) >= 1 + k
                    /\ appended[1 + k].role = "tool"
                    /\ appended[1 + k].tool_call_id = seg[1].data.id
               /\ Len(seg) = a => Len(appended) = k
      /\ \A i \in 1..Len(events) :
           (IsOutcomeEvent(events[i]) \/ IsStep(events[i], "action")
              \/ IsStep(events[i], "observation")) =>
             \E p \in starts : p < i /\ i < p + Len(CallEvents(p))

\* A turn of two calls is at the loop test: the first call, after a
\* reasoning chunk, has no placeholder and got a result; the second has a
\* placeholder Thought and failed.
C37_Witness ==
  /\ pc = "loop"
  /\ Len(tool_calls) = 2
  /\ Len(appended) = 3
  /\ \E p, q \in 1..Len(events) :
       /\ p < q
       /\ IsToolCallEvent(events[p])
       /\ IsToolCallEvent(events[q])
       /\ Len(CallEvents(p)) = 4
       /\ CallEvents(p)[3].type = "tool_result"
       /\ Len(CallEvents(q)) = 5
       /\ IsStep(CallEvents(q)[2], "thought")
       /\ CallEvents(q)[4].type = "tool_error"

(***************************************************************************)
(* Failures.                                                               *)
(***************************************************************************)
IsApiError(e) == e = StreamEvent("error", "DeepSeek request error")

\* C14: when the chat API fails in some turn, the error event is the one
\* terminal event of the request and its last event: no done, no tool of the
\* failing turn is executed, the generator is over and issues no request more.
C14_ApiFailureEndsRequest ==
  /\ [](\A i \in 1..Len(events) :
          IsApiError(events[i]) =>
            /\ i = Len(events)
            /\ pc = "closed"
            /\ TerminalCount = 1
            /\ Count(events, LAMBDA e : e.type = "done") = 0
            /\ tc_pos = 0
            /\ Count(events, IsToolCallEvent) = 0)
  /\ [](pc # "closed" => sent_terminal = 0)
  /\ [][ (events # <<>> /\ IsApiError(Last(events))) => FALSE ]_vars

\* The first turn executed a tool; the stream of the second failed after two
\* chunks had been forwarded.
C14_Witness ==
  /\ pc = "closed"
  /\ iteration = 2
  /\ carried = "observation"
  /\ Len(deltas) = 2
  /\ Len(events) >= 3
  /\ IsApiError(Last(events))
  /\ api_requests = 2

\* C15: a call naming a tool the registry does not have yields the tool_error
\* event and an Observation with the not-found text, appends the tool-role
\* message with that text for the id of the call, and the driver goes on to
\* the next call or to the loop test.
C15_UnknownToolIsReported ==
  [][ (/\ pc = "tool"
       /\ tool_calls[tc_pos].name \notin registry
       /\ ~ Uncaught(ParseParameters(tool_calls[tc_pos].arguments)))
      => LET tc  == tool_calls[tc_pos]
             msg == <<"Error: Tool '", tc.name, "' not found">>
             n   == Len(events')
         IN  /\ n >= Len(events) + 4
             /\ events'[n - 1] = StreamEvent("tool_error", [toolCallId |-> tc.id, error |-> msg])
             /\ IsStep(events'[n], "observation")
             /\ events'[n].data.error = msg
             /\ events'[n].data.result = NoneVal
             /\ IsStep(events'[n - 2], "action")
             /\ events'[n].data.action_id = events'[n - 2].data.id
             /\ appended' = Append(appended, ToolMessage(tc.id, msg))
             /\ last_step'.type = "observation"
             /\ IF tc_pos < Len(tool_calls)
                  THEN pc' = "tool" /\ tc_pos' = tc_pos + 1
                  ELSE pc' = "loop" ]_vars

\* The first call named the unregistered "nope"; the second is taken up.
C15_Witness ==
  /\ pc = "tool"
  /\ tc_pos = 2
  /\ tool_calls[1].name = "nope"
  /\ appended[2] = ToolMessage(tool_calls[1].id, <<"Error: Tool '", "nope", "' not found">>)
  /\ Last(events).data.error = <<"Error: Tool '", "nope", "' not found">>

\* C16: when the accumulated arguments of a call are not valid JSON, the call
\* goes on with empty parameters (the tool_call event carries them) and the
\* request is not ended by the parse.
C16_BadArgumentsParseAsEmpty ==
  [][ (pc = "tool" /\ json_loads(tool_calls[tc_pos].arguments) # "{path: a}")
      => /\ pc' # "closed"
         /\ \E p \in (Len(events) + 1)..Len(events') :
              /\ events'[p].type = "tool_call"
              /\ events'[p].data.id = tool_calls[tc_pos].id
              /\ events'[p].data.parameters = "{}" ]_vars

\* C17: when tool.execute is over, whether it returned or raised, the driver
\* yields the outcome event and an Observation of the Action of that call,
\* appends the tool message of that call, and goes on to the next call or to
\* the loop test; what a raising tool leaves is tool_error, an Observation
\* with the error and a tool message "Error: ...".
C17_ToolExceptionIsContained ==
  [][ pc = "exec"
      => LET tc == tool_calls[tc_pos]
             n  == Len(events')
         IN  /\ n = Len(events) + 2
             /\ SubSeq(events', 1, Len(events)) = events
             /\ IsOutcomeEvent(events'[n - 1])
             /\ events'[n - 1].data.toolCallId = tc.id
             /\ IsStep(events'[n], "observation")
             /\ events'[n].data.action_id = action.id
             /\ Len(appended') = Len(appended) + 1
             /\ SubSeq(appended', 1, Len(appended)) = appended
             /\ Last(appended').role = "tool"
             /\ Last(appended').tool_call_id = tc.id
             /\ (events'[n - 1].type = "tool_error" /\ events'[n - 1].data.error = "boom")
                  => /\ events'[n].data.error = "boom"
                     /\ events'[n].data.result = NoneVal
                     /\ Last(appended').content = <<"Error: ", "boom">>
             /\ IF tc_pos < Len(tool_calls)
                  THEN pc' = "tool" /\ tc_pos' = tc_pos + 1
                  ELSE pc' = "loop" ]_vars

\* The first call raised; the second call of the turn is being executed.
C17_Witness ==
  /\ pc = "exec"
  /\ tc_pos = 2
  /\ appended[2].content = <<"Error: ", "boom">>
  /\ Count(events, LAMBDA e : e.type = "tool_error" /\ e.data.error = "boom") = 1

(***************************************************************************)
(* What the client is sent while a turn streams.                           *)
(***************************************************************************)
\* the turn's chunks carried content only
ContentOnly ==
  \A k \in 1..Len(deltas) : deltas[k].reasoning = <<>> /\ deltas[k].tool_calls = <<>>

\* one content event per non-empty content fragment, then one reasoning event
\* per non-empty reasoning fragment, chunk by chunk
RECURSIVE FragmentEventsOf(_)
FragmentEventsOf(ds) ==
  IF ds = <<>> THEN <<>>
  ELSE (IF Head(ds).content # <<>> THEN <<StreamEvent("content", Head(ds).content)>> ELSE <<>>)
       \o (IF Head(ds).reasoning # <<>>
             THEN <<StreamEvent("reasoning", Head(ds).reasoning)>> ELSE <<>>)
       \o FragmentEventsOf(Tail(ds))

RECURSIVE ConcatContentDeltas(_)
ConcatContentDeltas(ds) ==
  IF ds = <<>> THEN <<>> ELSE Head(ds).content \o ConcatContentDeltas(Tail(ds))

\* C18: a turn of content chunks only, whose stream ended, has sent one
\* content event per non-empty fragment in order and then done with null
\* data; it sent no react_step event, and no request follows it.
C18_ContentOnlyTurn ==
  /\ []((pc = "closed" /\ ContentOnly /\ Last(events).type = "done")
          => /\ events = FragmentEventsOf(deltas) \o <<StreamEvent("done", NoneVal)>>
             /\ Count(events, LAMBDA e : e.type = "react_step") = 0
             /\ api_requests = iteration)
  /\ [][ (pc = "stream" /\ pc' # "stream" /\ ContentOnly /\ Last(events').type # "error")
           => /\ pc' = "closed"
              /\ events' = events \o <<StreamEvent("done", NoneVal)>>
              /\ api_requests' = api_requests ]_vars
  /\ [][ (pc = "closed" /\ Last(events).type = "done") => FALSE ]_vars

\* The only turn streamed "Hel" and "lo".
C18_Witness ==
  /\ pc = "closed"
  /\ iteration = 1
  /\ api_requests = 1
  /\ events = << StreamEvent("content", <<"Hel">>), StreamEvent("content", <<"lo">>),
                 StreamEvent("done", NoneVal) >>

\* C19: chunk by chunk, each non-empty content fragment and each non-empty
\* reasoning fragment is sent verbatim as one event of its own, content
\* first, and an empty fragment sends nothing; the buffers hold the
\* concatenation of the fragments; the react_step of a reasoning fragment
\* comes right after the fragment's event and shows the buffer with it.
C19_FragmentsForwardedFirst ==
  /\ SelectSeq(events, LAMBDA e : e.type \in {"content", "reasoning"})
       = FragmentEventsOf(deltas)
  /\ current_content = ConcatContentDeltas(deltas)
  /\ current_reasoning = ConcatReasoningDeltas(deltas)
  /\ \A i \in 1..Len(events) :
       events[i].type = "reasoning" =>
         /\ i < Len(events)
         /\ IsStep(events[i + 1], "thought")
         /\ events[i + 1].data.content = ConcatReasoningEvents(events, i)
  /\ \A i \in StreamPhase :
       IsStep(events[i], "thought") => (i > 1 /\ events[i - 1].type = "reasoning")

\* One chunk carried content, reasoning and a tool-call fragment; the next
\* carried nothing.
C19_Witness ==
  /\ pc = "stream"
  /\ Len(deltas) = 2
  /\ deltas[1].content = <<"Hel">>
  /\ deltas[1].reasoning = <<FragWord>>
  /\ deltas[2] = Delta(<<>>, <<>>, <<>>)
  /\ Len(events) = 3
  /\ events[1] = StreamEvent("content", <<"Hel">>)
  /\ events[2] = StreamEvent("reasoning", <<FragWord>>)
  /\ IsStep(events[3], "thought")
  /\ Len(tool_calls) = 1

\* C20: a chunk with one indexed fragment changes the entry at that index
\* only: the id and the name are replaced by the fragment's when it carries
\* one and kept otherwise, and the fragment's arguments are appended; so the
\* arguments of every entry are the concatenation, in arrival order, of the
\* argument fragments received for its index.
C20_FragmentMergedAtIndex ==
  /\ [](\A i \in 0..(Len(tool_calls) - 1) :
          tool_calls[i + 1].arguments
            = ConcatArguments(SelectSeq(ReceivedFragments(deltas), LAMBDA f : f.index = i)))
  /\ [][ (/\ pc = "stream"
          /\ Len(deltas') = Len(deltas) + 1
          /\ Len(Last(deltas').tool_calls) = 1
          /\ Last(deltas').tool_calls[1].has_index)
         => LET f   == Last(deltas').tool_calls[1]
                i   == f.index + 1
                old == IF i <= Len(tool_calls) THEN tool_calls[i]
                       ELSE PlaceholderEntry(f.index)
            IN  /\ Len(tool_calls') = IF i > Len(tool_calls) THEN i ELSE Len(tool_calls)
                /\ tool_calls'[i].id = IF f.id # "" THEN f.id ELSE old.id
                /\ tool_calls'[i].name = IF f.name # "" THEN f.name ELSE old.name
                /\ tool_calls'[i].arguments = old.arguments \o f.arguments
                /\ \A j \in 1..Len(tool_calls) : j # i => tool_calls'[j] = tool_calls[j] ]_vars

\* Index 1 got id, name and the opening of its arguments, then a fragment
\* without an id that renames it and closes the arguments.
C20_Witness ==
  /\ Len(deltas) = 2
  /\ deltas[1].tool_calls = <<Frag(TRUE, 1, "call_b", "nope", <<ArgOpen>>)>>
  /\ deltas[2].tool_calls = <<Frag(TRUE, 1, "", "file_read", <<ArgClose>>)>>
  /\ tool_calls[2] = [id |-> "call_b", name |-> "file_read", arguments |-> <<ArgOpen, ArgClose>>]
  /\ tool_calls[1] = PlaceholderEntry(0)

=============================================================================
